---- MODULE Spec2Model ----
(***************************************************************************)
(* A model of the browser add-ons of this repository:                      *)
(*   - the avatar injector (src/data/js/avatars.js): the avatar cache, the *)
(*     fetch queue with its bounded concurrency, the scan that reconciles  *)
(*     the injected avatar elements with the name elements of the page;    *)
(*   - the color settings panel (src/unnamed/part_000): the settings       *)
(*     mapping, its JSON form in local storage and its loading.            *)
(* JavaScript runs one task at a time: every action below is one task      *)
(* (a timer or observer callback, a host update of the page, a network     *)
(* completion) or one promise reaction (a microtask), run to its end.      *)
(***************************************************************************)
EXTENDS Integers, Sequences, FiniteSets, Bags, TLC

VARIABLES
    cache,        \* avatars.js: key -> [url, ts]; the keys present are its DOMAIN
    queue,        \* avatars.js: sequence of [nick, key] waiting to be fetched
    activeCount,  \* avatars.js: the counter of running doFetch calls
    pending,      \* bag of [nick, key]: fetch() promises not yet settled
    settled,      \* <<>>, or <<[nick, key, res]>>: the lookup whose fetch settled
                  \* with response res; then/catch has run, finally has not
    names,        \* the page: data-name of each .user element (NoName: none)
    avatars,      \* the page: the .tl-avatar children of each node, first first
    now,          \* Date.now(), in ms
    settings,     \* part_000: the settings object, its properties in order
    storage,      \* localStorage under STORAGE_KEY: <<>>, or <<the text>>
    userStyles,   \* #user-specified-css: <<>> when absent, or <<its text>>
    history,      \* the operations on the settings so far, oldest first
    rootStyle,    \* the custom properties set on the root element's style
    styleBlock,   \* #irc4fun-color-overrides: <<>> when absent, or <<its text>>
    styleField,   \* textarea[name="userStyles"]: <<>> when absent, or <<its value>>
    app,          \* whether the page holds #app
    view,         \* whether the page holds #settings
    sections,     \* the #irc4fun-colors-section elements of the page, in
                  \* document order, each with what its controls show
    initTimers,   \* part_000: pending setTimeout(init, 300)
    observing,    \* part_000: MutationObservers (and hashchange listeners) installed
    injectTimers, \* part_000: pending setTimeout(tryInject, ...)
    throttleTimer, \* avatars.js: NoTimer (null), or the time left of the throttle timer
    trailingTimer, \* avatars.js: NoTimer, or the time left of the pending trailing timer
    sinceLeading, \* the time since the last leading-edge scan, up to THROTTLE_MS
    quiet,        \* the time since the last mutation, up to TRAILING_MS
    unscanned,    \* whether no scan has started since the last mutation
    avatarInits,  \* avatars.js: the time left of each pending setTimeout(init, ...)
    observerOn,   \* avatars.js: the number of observer.observe(app, ...) calls made
    intervalOn,   \* avatars.js: the number of setInterval(scanAll, ...) calls made
    intervalTimer \* avatars.js: NoTimer, or the time left of the interval's period

avatarVars == <<cache, queue, activeCount, pending, settled, names, avatars, now>>

panelVars == <<settings, storage, userStyles, history>>

pageVars ==
    <<rootStyle, styleBlock, styleField, app, view, sections, initTimers,
      observing, injectTimers>>

observerVars == <<throttleTimer, trailingTimer, sinceLeading, quiet, unscanned>>

initVars == <<avatarInits, observerOn, intervalOn, intervalTimer>>

vars == <<avatarVars, panelVars, pageVars, observerVars, initVars>>

(***************************************************************************)
(* Bounds of the model.                                                    *)
(***************************************************************************)
\* The clock advances in steps of TickMs, at most MaxTicks times.
MaxTicks == 2

\* At most MaxOps operations on the settings are followed.
MaxOps == 3

\* At most MaxInjectTimers delayed injection attempts are pending at a time.
MaxInjectTimers == 2

\* Save & Sync is followed while the custom-style field is at most
\* MaxFieldExtra elements longer than the JSON text of the settings.
MaxFieldExtra == 30

(***************************************************************************)
(* Configuration of avatars.js.                                            *)
(***************************************************************************)
AVATAR_ORIGIN == <<>>

NEGATIVE_TTL == 5 * 60 * 1000

MAX_CONCURRENT == 3

THROTTLE_MS == 120

TRAILING_MS == 250

\* The step of the observer's clock.
ClockStep == THROTTLE_MS \div 12

\* A timer variable that holds no pending timer.
NoTimer == 0 - 1

SCAN_INTERVAL == 1500

\* The delay of the first init (lines 279-285) and of a retry (line 257).
INIT_DELAY == 500

RETRY_DELAY == 250

\* The step of the clock of the start.
InitClockStep == RETRY_DELAY

\* The init timers a state may hold and still run one.
MaxInits == 2

SERVICE_NICKS ==
    << "chanserv", "nickserv", "memoserv", "operserv", "hostserv",
       "botserv", "saslserv", "global", "helpserv", "statserv",
       "alis", "gameserv", "groupserv", "infoserv", "reportserv" >>

serviceSet == { SERVICE_NICKS[i] : i \in DOMAIN SERVICE_NICKS }

\* One clock step: half the negative TTL, so that a negative entry is seen
\* both younger than the TTL after time has passed, and expired.
TickMs == NEGATIVE_TTL \div 2

(***************************************************************************)
(* Text.  A string is the sequence of its characters; a run of characters  *)
(* that no operation of the program looks into is written as one element.  *)
(***************************************************************************)
startsWith(s, prefix) ==
    /\ Len(s) >= Len(prefix)
    /\ SubSeq(s, 1, Len(prefix)) = prefix

\* JavaScript values of the lookup: null, or a string.
Null == [t |-> "null", s |-> <<>>]

Str(s) == [t |-> "str", s |-> s]

\* ToBoolean of such a value: null and the empty string are falsy.
Truthy(v) == v.t = "str" /\ v.s # <<>>

(***************************************************************************)
(* Nicknames.  The nicknames the host page shows, and String.toLowerCase   *)
(* on them.                                                                *)
(***************************************************************************)
NoName == "<none>"

Nicks == {"alice", "Alice", "bob", "ChanServ"}

toLowerCase(nick) ==
    CASE nick = "Alice" -> "alice"
      [] nick = "ChanServ" -> "chanserv"
      [] OTHER -> nick

\* isServiceNick comparing the nickname as written, without lowercasing it.
isServiceNickCaseSensitive(nick) == nick \in serviceSet

isServiceNick(nick) == toLowerCase(nick) \in serviceSet

(***************************************************************************)
(* The page.  Each .user element of #chat has a fixed place: inside        *)
(* .userlist or not, the .from wrapper it is in (0: none), whether its     *)
(* .msg has data-type whois, and its parent element.  Nodes 1..NumElems    *)
(* are the .user elements; the wrappers and parents follow.                *)
(***************************************************************************)
Layout ==
    << [userlist |-> TRUE,  from |-> 0, whois |-> FALSE, parent |-> 0],
       [userlist |-> FALSE, from |-> 6, whois |-> FALSE, parent |-> 6],
       [userlist |-> FALSE, from |-> 0, whois |-> TRUE,  parent |-> 7],
       [userlist |-> FALSE, from |-> 0, whois |-> TRUE,  parent |-> 7],
       [userlist |-> FALSE, from |-> 0, whois |-> FALSE, parent |-> 0] >>

Elems == DOMAIN Layout

\* The nodes an avatar can be put into: the elements (1..5), the .from
\* wrapper of element 2 (6) and the whois paragraph of elements 3 and 4 (7).
Nodes == 1..7

getContext(el) ==
    IF Layout[el].userlist THEN "nicklist"
    ELSE IF Layout[el].from # 0 THEN "msg"
    ELSE IF Layout[el].whois THEN "whois"
    ELSE "other"

\* The injection target of injectAvatar, the container of processUserElement.
targetOf(el, ctx) ==
    IF ctx = "msg" THEN (IF Layout[el].from # 0 THEN Layout[el].from ELSE el)
    ELSE IF ctx = "whois" THEN (IF Layout[el].parent # 0 THEN Layout[el].parent ELSE el)
    ELSE el

createAvatarEl(nick, url) ==
    [nick |-> nick,
     src  |-> IF startsWith(url, <<"/">>) THEN AVATAR_ORIGIN \o url ELSE url]

\* injectAvatar leaving a stale avatar of a re-used element in place.
injectAvatarKeepStale(av, userEl, nick, url) ==
    LET ctx == getContext(userEl) IN
    IF ctx = "other" THEN av
    ELSE
      LET target == targetOf(userEl, ctx)
          old    == av[target]
      IN IF old # <<>> /\ Head(old).nick = nick THEN av
         ELSE [av EXCEPT ![target] = <<createAvatarEl(nick, url)>> \o old]

\* injectAvatar on the avatar children `av` of all nodes.
injectAvatar(av, userEl, nick, url) ==
    LET ctx == getContext(userEl) IN
    IF ctx = "other" THEN av
    ELSE
      LET target == targetOf(userEl, ctx)
          old    == av[target]
      IN IF old # <<>> /\ Head(old).nick = nick THEN av
         ELSE LET rest == IF old # <<>> THEN Tail(old) ELSE old
              IN [av EXCEPT ![target] = <<createAvatarEl(nick, url)>> \o rest]

RECURSIVE injectFrom(_, _, _, _, _)
injectFrom(av, nm, i, nick, url) ==
    IF i > Len(Layout) THEN av
    ELSE injectFrom(IF nm[i] = nick THEN injectAvatar(av, i, nick, url) ELSE av,
                    nm, i + 1, nick, url)

\* injectAllForNick: every #chat .user whose data-name is exactly nick.
injectAllForNick(av, nm, nick, url) == injectFrom(av, nm, 1, nick, url)

(***************************************************************************)
(* The fetch queue.  st is the state the functions act on:                 *)
(* [cache, queue, activeCount, pending, avatars].                          *)
(***************************************************************************)
cachePut(c, key, entry) ==
    [k \in (DOMAIN c) \cup {key} |-> IF k = key THEN entry ELSE c[k]]

cacheDelete(c, key) == [k \in (DOMAIN c) \ {key} |-> c[k]]

doFetch(st, nick, key) ==
    [st EXCEPT !.activeCount = @ + 1,
               !.pending = @ (+) SetToBag({[nick |-> nick, key |-> key]})]

\* drainQueue with the loop test off by one (<= for <).
RECURSIVE drainQueueOffByOne(_)
drainQueueOffByOne(st) ==
    IF st.activeCount <= MAX_CONCURRENT /\ Len(st.queue) > 0
    THEN LET item == Head(st.queue)
         IN drainQueueOffByOne(doFetch([st EXCEPT !.queue = Tail(@)], item.nick, item.key))
    ELSE st

RECURSIVE drainQueue(_)
drainQueue(st) ==
    IF st.activeCount < MAX_CONCURRENT /\ Len(st.queue) > 0
    THEN LET item == Head(st.queue)
         IN drainQueue(doFetch([st EXCEPT !.queue = Tail(@)], item.nick, item.key))
    ELSE st

enqueue(st, nick) ==
    LET key == toLowerCase(nick) IN
    IF key \in DOMAIN st.cache THEN st
    ELSE IF \E i \in DOMAIN st.queue : st.queue[i].key = key THEN st
    ELSE drainQueue([st EXCEPT !.queue = Append(@, [nick |-> nick, key |-> key])])

(***************************************************************************)
(* Scanning.                                                               *)
(***************************************************************************)
processUserElementKeepWrong(st, el, nm, t) ==
    LET nick == nm[el] IN
    IF nick = NoName THEN st
    ELSE IF isServiceNick(nick) THEN st
    ELSE
      LET ctx == getContext(el) IN
      IF ctx = "other" THEN st
      ELSE
        LET key       == toLowerCase(nick)
            container == targetOf(el, ctx)
            existing  == st.avatars[container]
        IN
        IF existing # <<>> /\ Head(existing).nick = nick THEN st
        ELSE
          LET st1 == st
          IN
          IF key \in DOMAIN st.cache
          THEN LET cached == st.cache[key] IN
               IF Truthy(cached.url)
               THEN [st1 EXCEPT !.avatars = injectAvatar(@, el, nick, cached.url.s)]
               ELSE IF t - cached.ts < NEGATIVE_TTL THEN st1
               ELSE enqueue([st1 EXCEPT !.cache = cacheDelete(@, key)], nick)
          ELSE enqueue(st1, nick)

processUserElement(st, el, nm, t) ==
    LET nick == nm[el] IN
    IF nick = NoName THEN st
    ELSE IF isServiceNick(nick) THEN st
    ELSE
      LET ctx == getContext(el) IN
      IF ctx = "other" THEN st
      ELSE
        LET key       == toLowerCase(nick)
            container == targetOf(el, ctx)
            existing  == st.avatars[container]
        IN
        IF existing # <<>> /\ Head(existing).nick = nick THEN st
        ELSE
          LET st1 == IF existing # <<>>
                     THEN [st EXCEPT !.avatars[container] = Tail(existing)]
                     ELSE st
          IN
          IF key \in DOMAIN st.cache
          THEN LET cached == st.cache[key] IN
               IF Truthy(cached.url)
               THEN [st1 EXCEPT !.avatars = injectAvatar(@, el, nick, cached.url.s)]
               ELSE IF t - cached.ts < NEGATIVE_TTL THEN st1
               ELSE enqueue([st1 EXCEPT !.cache = cacheDelete(@, key)], nick)
          ELSE enqueue(st1, nick)

RECURSIVE scanFrom(_, _, _, _)
scanFrom(st, i, nm, t) ==
    IF i > Len(Layout) THEN st
    ELSE scanFrom(processUserElement(st, i, nm, t), i + 1, nm, t)

\* scanAll: every #chat .user[data-name], in document order.
scanAll(st, nm, t) == scanFrom(st, 1, nm, t)

State ==
    [cache |-> cache, queue |-> queue, activeCount |-> activeCount,
     pending |-> pending, avatars |-> avatars]

Install(st) ==
    /\ cache' = st.cache
    /\ queue' = st.queue
    /\ activeCount' = st.activeCount
    /\ pending' = st.pending
    /\ avatars' = st.avatars

(***************************************************************************)
(* The lookup service.  A response is the outcome of fetch(apiUrl) and of  *)
(* res.json(): the fetch itself fails (net = FALSE), the status is not OK, *)
(* the body is no JSON, or the body is a JSON value: null, or an object    *)
(* with an avatar_url that is null or a string.                            *)
(***************************************************************************)
StaticUrl == <<"/", "static", "/", "img/default.png">>

\* "/media/static/a.png": "/static/" occurs in it, but not at index 0.
MediaUrl == <<"/", "media", "/", "static", "/", "a.png">>

AvatarUrls == {Null, Str(<<>>), Str(StaticUrl), Str(MediaUrl)}

Responses ==
    {[net |-> FALSE, ok |-> FALSE, body |-> "none",      avatar_url |-> Null],
     [net |-> TRUE,  ok |-> FALSE, body |-> "object",    avatar_url |-> Str(MediaUrl)],
     [net |-> TRUE,  ok |-> TRUE,  body |-> "malformed", avatar_url |-> Null],
     [net |-> TRUE,  ok |-> TRUE,  body |-> "null",      avatar_url |-> Null]}
    \cup {[net |-> TRUE, ok |-> TRUE, body |-> "object", avatar_url |-> u] : u \in AvatarUrls}

\* Whether the promise that .catch() is attached to is rejected: fetch()
\* rejected, or res.json() rejected.
rejected(res) == ~res.net \/ (res.ok /\ res.body = "malformed")

\* resultUrl without the test for default/static avatars.
resultUrlKeepStatic(res) ==
    LET data == IF ~res.ok \/ res.body = "null" THEN Null ELSE res.avatar_url
    IN IF Truthy(data) THEN data ELSE Null

\* The url computed by the second .then() of doFetch from the response.
resultUrl(res) ==
    LET data == IF ~res.ok \/ res.body = "null" THEN Null ELSE res.avatar_url
        url  == IF Truthy(data) THEN data ELSE Null
    IN IF Truthy(url) /\ startsWith(url.s, <<"/", "static", "/">>) THEN Null ELSE url

(***************************************************************************)
(* Actions of the avatar injector.                                         *)
(***************************************************************************)
\* The second .then() callback of doFetch (lines 143-156).
thenData(st, nm, nick, key, res, t) ==
    LET url == resultUrl(res)
        st1 == [st EXCEPT !.cache = cachePut(@, key, [url |-> url, ts |-> t])]
    IN IF Truthy(url)
       THEN [st1 EXCEPT !.avatars = injectAllForNick(@, nm, nick, url.s)]
       ELSE st1

\* The .catch() callback taking the lookup off the count as well.
catchHandlerAlsoDecrements(st, key, t) ==
    [st EXCEPT !.cache = cachePut(@, key, [url |-> Null, ts |-> t]),
               !.activeCount = @ - 1]

\* The .catch() callback of doFetch (lines 157-159).
catchHandler(st, key, t) ==
    [st EXCEPT !.cache = cachePut(@, key, [url |-> Null, ts |-> t])]

finallyHandlerNoDrain(st) == [st EXCEPT !.activeCount = @ - 1]

\* The .finally() callback of doFetch (lines 160-163).
finallyHandler(st) == drainQueue([st EXCEPT !.activeCount = @ - 1])

(***************************************************************************)
(* The color settings panel (src/unnamed/part_000).                        *)
(*                                                                         *)
(* JavaScript values of the settings: true, false, null, a string, or an   *)
(* object, which is the sequence of its properties [k, v] in property      *)
(* order.  The texts below are over an alphabet without digits outside     *)
(* strings and without brackets, so JSON numbers and arrays do not occur,  *)
(* and a property name is one element of a text.                           *)
(***************************************************************************)
JBool(b) == [t |-> "bool", b |-> b, s |-> <<>>, props |-> <<>>]

JStr(s) == [t |-> "str", b |-> FALSE, s |-> s, props |-> <<>>]

JNull == [t |-> "null", b |-> FALSE, s |-> <<>>, props |-> <<>>]

JObj(props) == [t |-> "obj", b |-> FALSE, s |-> <<>>, props |-> props]

Hex(a, b, c, d, e, f) == JStr(<<"#", a, b, c, d, e, f>>)

STORAGE_KEY == "irc4fun-color-settings"

SYNC_TAG == "IRC4FUN_COLORS"

DEFAULTS ==
    << [k |-> "coloredNicks",    v |-> JBool(TRUE)],
       [k |-> "nickBold",        v |-> JBool(FALSE)],
       [k |-> "timestampColor",  v |-> Hex("6", "4", "7", "4", "8", "b")],
       [k |-> "linkColor",       v |-> Hex("5", "a", "a", "5", "f", "f")],
       [k |-> "joinColor",       v |-> Hex("4", "a", "d", "e", "8", "0")],
       [k |-> "partColor",       v |-> Hex("f", "8", "7", "1", "7", "1")],
       [k |-> "quitColor",       v |-> Hex("f", "8", "7", "1", "7", "1")],
       [k |-> "actionColor",     v |-> Hex("f", "b", "b", "f", "2", "4")],
       [k |-> "noticeColor",     v |-> Hex("5", "a", "a", "5", "f", "f")],
       [k |-> "highlightBg",     v |-> Hex("1", "c", "2", "d", "4", "a")],
       [k |-> "highlightBorder", v |-> Hex("0", "0", "7", "6", "f", "9")],
       [k |-> "unreadMarker",    v |-> Hex("e", "f", "4", "4", "4", "4")],
       [k |-> "dateMarker",      v |-> Hex("1", "4", "b", "8", "a", "6")],
       [k |-> "bgColor",         v |-> Hex("0", "f", "1", "1", "1", "5")],
       [k |-> "windowBg",        v |-> Hex("1", "a", "1", "e", "2", "5")],
       [k |-> "sidebarBg",       v |-> Hex("0", "c", "0", "e", "1", "2")],
       [k |-> "textColor",       v |-> Hex("e", "4", "e", "7", "e", "b")],
       [k |-> "mutedColor",      v |-> Hex("8", "a", "9", "4", "a", "8")],
       [k |-> "inputBg",         v |-> Hex("1", "1", "1", "4", "1", "a")],
       [k |-> "borderColor",     v |-> Hex("2", "a", "3", "5", "4", "5")],
       [k |-> "accentColor",     v |-> Hex("0", "0", "7", "6", "f", "9")] >>

\* obj[key] = v: an own property keeps its place, a new one goes last.
setProp(props, key, v) ==
    IF \E i \in DOMAIN props : props[i].k = key
    THEN [i \in DOMAIN props |->
            IF props[i].k = key THEN [k |-> key, v |-> v] ELSE props[i]]
    ELSE Append(props, [k |-> key, v |-> v])

\* The own enumerable properties Object.assign copies from a source: those
\* of an object; the indexed characters of a string; none of null, true
\* or false.
ownProps(src) ==
    CASE src.t = "obj" -> src.props
      [] src.t = "str" ->
           [i \in 1..Len(src.s) |-> [k |-> ToString(i - 1), v |-> JStr(<<src.s[i]>>)]]
      [] OTHER -> <<>>

RECURSIVE assignFrom(_, _, _)
assignFrom(target, props, i) ==
    IF i > Len(props) THEN target
    ELSE assignFrom(setProp(target, props[i].k, props[i].v), props, i + 1)

objectAssignDefaultsLast(a, b) == assignFrom(assignFrom(<<>>, ownProps(b), 1), a, 1)

\* Object.assign({}, a, b) for an object a and any value b.
objectAssign(a, b) == assignFrom(assignFrom(<<>>, a, 1), ownProps(b), 1)

(***************************************************************************)
(* JSON.stringify of such values.                                          *)
(***************************************************************************)
\* The characters JSON.stringify writes for one character of a string.
quoteChar(c) ==
    CASE c = "\"" -> <<"\\", "\"">>
      [] c = "\\" -> <<"\\", "\\">>
      [] c = "\n" -> <<"\\", "n">>
      [] OTHER -> <<c>>

RECURSIVE quoteFrom(_, _)
quoteFrom(s, i) ==
    IF i > Len(s) THEN <<>> ELSE quoteChar(s[i]) \o quoteFrom(s, i + 1)

quote(s) == <<"\"">> \o quoteFrom(s, 1) \o <<"\"">>

RECURSIVE stringifyValue(_)
RECURSIVE stringifyProps(_, _)
stringifyProps(props, i) ==
    IF i > Len(props) THEN <<>>
    ELSE (IF i > 1 THEN <<",">> ELSE <<>>)
         \o <<"\"", props[i].k, "\"", ":">>
         \o stringifyValue(props[i].v)
         \o stringifyProps(props, i + 1)

stringifyValue(v) ==
    CASE v.t = "bool" -> IF v.b THEN <<"true">> ELSE <<"false">>
      [] v.t = "null" -> <<"null">>
      [] v.t = "str"  -> quote(v.s)
      [] OTHER        -> <<"{">> \o stringifyProps(v.props, 1) \o <<"}">>

\* JSON.stringify(settings) for the settings object.
JSONstringify(props) == stringifyValue(JObj(props))

(***************************************************************************)
(* JSON.parse.  A result is [ok, val, pos]: whether the text parsed so     *)
(* far, the value, and the position after it; ~ok is a SyntaxError.        *)
(***************************************************************************)
IsSpace(c) == c \in {" ", "\n", "\t"}

ParseError == [ok |-> FALSE, val |-> JNull, pos |-> 0]

\* The first position from i on that holds no white space (Len(T) + 1 when
\* there is none).
skipSpace(T, i) ==
    CHOOSE j \in i..(Len(T) + 1) :
        /\ j = Len(T) + 1 \/ ~IsSpace(T[j])
        /\ \A k \in i..(j - 1) : IsSpace(T[k])

\* The characters of a string literal from position i (after its opening
\* quote) on, given the characters acc read so far.  Of the escapes, those
\* the texts of the model can hold are read.
RECURSIVE parseChars(_, _, _)
parseChars(T, i, acc) ==
    IF i > Len(T) THEN ParseError
    ELSE IF T[i] = "\"" THEN [ok |-> TRUE, val |-> JStr(acc), pos |-> i + 1]
    ELSE IF T[i] = "\n" \/ T[i] = "\t" THEN ParseError
    ELSE IF T[i] = "\\"
    THEN IF i + 1 > Len(T) THEN ParseError
         ELSE IF T[i + 1] \in {"\"", "\\", "/"}
              THEN parseChars(T, i + 2, Append(acc, T[i + 1]))
         ELSE IF T[i + 1] = "n" THEN parseChars(T, i + 2, Append(acc, "\n"))
         ELSE IF T[i + 1] = "t" THEN parseChars(T, i + 2, Append(acc, "\t"))
         ELSE ParseError
    ELSE parseChars(T, i + 1, Append(acc, T[i]))

RECURSIVE parseValue(_, _)
RECURSIVE parseMembers(_, _, _)
\* The members of an object from position i (a property name is expected)
\* on, given the properties read so far.
parseMembers(T, i, props) ==
    LET i1 == skipSpace(T, i) IN
    IF i1 > Len(T) \/ T[i1] # "\"" THEN ParseError
    ELSE
      LET name == parseChars(T, i1 + 1, <<>>) IN
      IF ~name.ok \/ Len(name.val.s) # 1 THEN ParseError
      ELSE
        LET i2 == skipSpace(T, name.pos) IN
        IF i2 > Len(T) \/ T[i2] # ":" THEN ParseError
        ELSE
          LET v == parseValue(T, i2 + 1) IN
          IF ~v.ok THEN ParseError
          ELSE
            LET i3 == skipSpace(T, v.pos)
                ps == setProp(props, name.val.s[1], v.val)
            IN IF i3 > Len(T) THEN ParseError
               ELSE IF T[i3] = "," THEN parseMembers(T, i3 + 1, ps)
               ELSE IF T[i3] = "}"
                    THEN [ok |-> TRUE, val |-> JObj(ps), pos |-> i3 + 1]
               ELSE ParseError

parseValue(T, i) ==
    LET i1 == skipSpace(T, i) IN
    IF i1 > Len(T) THEN ParseError
    ELSE CASE T[i1] = "true"  -> [ok |-> TRUE, val |-> JBool(TRUE),  pos |-> i1 + 1]
           [] T[i1] = "false" -> [ok |-> TRUE, val |-> JBool(FALSE), pos |-> i1 + 1]
           [] T[i1] = "null"  -> [ok |-> TRUE, val |-> JNull,        pos |-> i1 + 1]
           [] T[i1] = "\""    -> parseChars(T, i1 + 1, <<>>)
           [] T[i1] = "{"     ->
                LET i2 == skipSpace(T, i1 + 1) IN
                IF i2 <= Len(T) /\ T[i2] = "}"
                THEN [ok |-> TRUE, val |-> JObj(<<>>), pos |-> i2 + 1]
                ELSE parseMembers(T, i1 + 1, <<>>)
           [] OTHER -> ParseError

\* JSON.parse(text): [ok, val]; ~ok when it throws.
JSONparse(T) ==
    LET r == parseValue(T, 1) IN
    IF r.ok /\ skipSpace(T, r.pos) = Len(T) + 1
    THEN [ok |-> TRUE, val |-> r.val]
    ELSE [ok |-> FALSE, val |-> JNull]

(***************************************************************************)
(* The tagged block in the custom CSS (lines 65-78).                       *)
(***************************************************************************)
\* The least position >= i where "*" "/" starts, or 0.
findClose(css, i) ==
    LET closes == {p \in i..(Len(css) - 1) : css[p] = "*" /\ css[p + 1] = "/"}
    IN IF closes = {} THEN 0
       ELSE CHOOSE p \in closes : \A q \in closes : p <= q

\* The start of the run of white space that ends just before p, not
\* before position a.
spaceRunStart(css, a, p) ==
    CHOOSE j \in a..p :
        /\ \A k \in j..(p - 1) : IsSpace(css[k])
        /\ j = a \/ ~IsSpace(css[j - 1])

\* The match of /\/\*\s*TAG:\s*([\s\S]*?)\s*\*\// at position i:
\* [ok, group, end], with `end` the position after the match.
tagMatchAt(css, i) ==
    IF ~(i + 1 <= Len(css) /\ css[i] = "/" /\ css[i + 1] = "*")
    THEN [ok |-> FALSE, group |-> <<>>, end |-> 0]
    ELSE
      LET j == skipSpace(css, i + 2) IN
      IF ~(j + 1 <= Len(css) /\ css[j] = SYNC_TAG /\ css[j + 1] = ":")
      THEN [ok |-> FALSE, group |-> <<>>, end |-> 0]
      ELSE
        LET a == skipSpace(css, j + 2)
            p == findClose(css, a)
        IN IF p = 0 THEN [ok |-> FALSE, group |-> <<>>, end |-> 0]
           ELSE [ok |-> TRUE,
                 group |-> SubSeq(css, a, spaceRunStart(css, a, p) - 1),
                 end |-> p + 2]

\* css.match(re): the leftmost match.
tagMatch(css) ==
    LET starts == {i \in 1..Len(css) : tagMatchAt(css, i).ok}
    IN IF starts = {} THEN [ok |-> FALSE, group |-> <<>>, end |-> 0]
       ELSE tagMatchAt(css, CHOOSE i \in starts : \A j \in starts : i <= j)

\* parseTagFromCSS: [found, val]; ~found is the null it returns.
parseTagFromCSS(css) ==
    LET m == tagMatch(css) IN
    IF ~m.ok THEN [found |-> FALSE, val |-> JNull]
    ELSE LET r == JSONparse(m.group)
         IN IF r.ok THEN [found |-> TRUE, val |-> r.val]
            ELSE [found |-> FALSE, val |-> JNull]

\* loadFromUserStyles: styleEl is <<>> when #user-specified-css is absent,
\* else <<its innerHTML>>.
loadFromUserStyles(styleEl) ==
    IF styleEl = <<>> THEN [found |-> FALSE, val |-> JNull]
    ELSE parseTagFromCSS(styleEl[1])

\* ToBoolean of what parseTagFromCSS returned: null (not found, or the JSON
\* text null) and false are falsy.
truthyValue(r) ==
    /\ r.found
    /\ r.val.t # "null"
    /\ ~(r.val.t = "bool" /\ ~r.val.b)
    /\ ~(r.val.t = "str" /\ r.val.s = <<>>)

loadLocalOnly(item, styleEl) ==
    IF item # <<>> /\ item[1] # <<>>
    THEN LET saved == JSONparse(item[1])
         IN IF saved.ok THEN objectAssign(DEFAULTS, saved.val)
            ELSE objectAssign(DEFAULTS, JNull)
    ELSE objectAssign(DEFAULTS, JNull)

\* load(): item is <<>> when localStorage holds nothing under STORAGE_KEY,
\* else <<the text>>.
load(item, styleEl) ==
    IF item # <<>> /\ item[1] # <<>>
    THEN LET saved == JSONparse(item[1])
         IN IF saved.ok THEN objectAssign(DEFAULTS, saved.val)
            ELSE objectAssign(DEFAULTS, JNull)
    ELSE LET fromServer == loadFromUserStyles(styleEl)
         IN IF truthyValue(fromServer) THEN objectAssign(DEFAULTS, fromServer.val)
            ELSE objectAssign(DEFAULTS, JNull)

\* save(settings): the text put under STORAGE_KEY.
save(s) == <<JSONstringify(s)>>

(***************************************************************************)
(* Applying the settings to the document (lines 111-173).                  *)
(***************************************************************************)
\* settings[key] for a key the object holds.
getProp(props, key) == props[CHOOSE i \in DOMAIN props : props[i].k = key].v

\* ToString of a value, as string concatenation and DOM setters apply it.
toText(v) ==
    CASE v.t = "str"  -> v.s
      [] v.t = "bool" -> IF v.b THEN <<"true">> ELSE <<"false">>
      [] v.t = "null" -> <<"null">>
      [] OTHER        -> <<"[object Object]">>

\* ToBoolean of a value.
toBoolean(v) ==
    CASE v.t = "str"  -> v.s # <<>>
      [] v.t = "bool" -> v.b
      [] v.t = "null" -> FALSE
      [] OTHER        -> TRUE

\* The custom properties applyAll sets on the root element, each with the
\* setting it takes its value from (lines 115-125).
ROOT_VARS ==
    << [name |-> "--body-bg-color",            key |-> "bgColor"],
       [name |-> "--body-color",               key |-> "textColor"],
       [name |-> "--body-color-muted",         key |-> "mutedColor"],
       [name |-> "--window-bg-color",          key |-> "windowBg"],
       [name |-> "--link-color",               key |-> "linkColor"],
       [name |-> "--highlight-bg-color",       key |-> "highlightBg"],
       [name |-> "--highlight-border-color",   key |-> "highlightBorder"],
       [name |-> "--unread-marker-color",      key |-> "unreadMarker"],
       [name |-> "--date-marker-color",        key |-> "dateMarker"],
       [name |-> "--button-color",             key |-> "accentColor"],
       [name |-> "--upload-progressbar-color", key |-> "accentColor"] >>

RootVarNames == { ROOT_VARS[i].name : i \in DOMAIN ROOT_VARS }

\* style.setProperty(name, v): null is the empty string, and the empty
\* string removes the property (<<>> stands for a property not set).  The
\* CSS syntax of the value is the style engine's matter and not looked into.
setProperty(style, name, v) ==
    [style EXCEPT ![name] = IF v.t = "null" THEN <<>> ELSE toText(v)]

RECURSIVE setRootVars(_, _, _)
setRootVars(style, s, i) ==
    IF i > Len(ROOT_VARS) THEN style
    ELSE setRootVars(setProperty(style, ROOT_VARS[i].name,
                                 getProp(s, ROOT_VARS[i].key)), s, i + 1)

\* One rule of the override style block: before + settings[key] + after.
rule(before, s, key, after) == <<before>> \o toText(getProp(s, key)) \o <<after>>

\* The text applyAll gives the override style block (lines 135-170).
overrideCSS(s) ==
    (IF ~toBoolean(getProp(s, "coloredNicks"))
     THEN rule("#chat .user[class*='color-'] { color: ", s, "textColor", " !important; }\n")
     ELSE <<>>)
    \o (IF toBoolean(getProp(s, "nickBold"))
        THEN <<"#chat .msg .from .user { font-weight: 700 !important; }\n">>
        ELSE <<>>)
    \o rule("#chat .time { color: ", s, "timestampColor", " !important; }\n")
    \o rule("#chat .msg[data-type='join'] .content { color: ", s, "joinColor", " !important; }\n")
    \o rule("#chat .msg[data-type='part'] .content { color: ", s, "partColor", " !important; }\n")
    \o rule("#chat .msg[data-type='quit'] .content { color: ", s, "quitColor", " !important; }\n")
    \o rule("#chat .msg[data-type='action'] .content { color: ", s, "actionColor", " !important; }\n")
    \o rule("#chat .msg[data-type='notice'] .content { color: ", s, "noticeColor", " !important; }\n")
    \o rule("#sidebar { background: ", s, "sidebarBg", " !important; }\n")
    \o rule("#form { background-color: ", s, "inputBg", " !important; }\n")
    \o rule("#form { border-top-color: ", s, "borderColor", " !important; }\n")
    \o rule("#chat .content { border-left-color: ", s, "borderColor", " !important; }\n")
    \o rule("#chat .header { border-bottom-color: ", s, "borderColor", " !important; }\n")
    \o rule("#chat .userlist { border-left-color: ", s, "borderColor", " !important; }\n")
    \o <<".btn { border-color: ">> \o toText(getProp(s, "accentColor"))
    \o rule(" !important; color: ", s, "accentColor", " !important; background: transparent !important; }\n")
    \o rule(".btn:hover, .btn:focus { background: ", s, "accentColor", " !important; color: #fff !important; }\n")
    \o <<".irc4fun-sync-btn { color: #fff !important; }\n">>
    \o rule(".irc4fun-sync-btn:hover, .irc4fun-sync-btn:focus { background: ", s, "accentColor", " !important; color: #fff !important; }\n")
    \o rule("#form #nick { color: ", s, "accentColor", " !important; }\n")

\* applyAll(): the root style and the override style block afterwards.  The
\* block is created when absent and its text replaced.
applyAll(style, s) ==
    [root |-> setRootVars(style, s, 1), block |-> <<overrideCSS(s)>>]

(***************************************************************************)
(* The tagged block in the custom-style field (lines 80-106).              *)
(***************************************************************************)
\* String.prototype.trim.
trim(text) ==
    LET a == skipSpace(text, 1)
    IN IF a > Len(text) THEN <<>>
       ELSE SubSeq(text, a, spaceRunStart(text, a, Len(text) + 1) - 1)

\* The match of /\/\*\s*TAG:[\s\S]*?\*\/\s*/ at position i: [ok, end], with
\* `end` the position after the match.
stripMatchAt(css, i) ==
    IF ~(i + 1 <= Len(css) /\ css[i] = "/" /\ css[i + 1] = "*")
    THEN [ok |-> FALSE, end |-> 0]
    ELSE
      LET j == skipSpace(css, i + 2) IN
      IF ~(j + 1 <= Len(css) /\ css[j] = SYNC_TAG /\ css[j + 1] = ":")
      THEN [ok |-> FALSE, end |-> 0]
      ELSE LET p == findClose(css, j + 2)
           IN IF p = 0 THEN [ok |-> FALSE, end |-> 0]
              ELSE [ok |-> TRUE, end |-> skipSpace(css, p + 2)]

stripTagNothing(css) == css

\* existingCSS.replace(re, ""): the leftmost match is cut out.
stripTag(css) ==
    LET starts == {i \in 1..Len(css) : stripMatchAt(css, i).ok}
    IN IF starts = {} THEN css
       ELSE LET i == CHOOSE a \in starts : \A b \in starts : a <= b
            IN SubSeq(css, 1, i - 1)
               \o SubSeq(css, stripMatchAt(css, i).end, Len(css))

\* buildSyncCSS(existingCSS) for the settings s.
buildSyncCSS(existingCSS, s) ==
    LET clean == trim(stripTag(existingCSS))
        tag == <<"/", "*", " ", SYNC_TAG, ":", " ">> \o JSONstringify(s)
                 \o <<" ", "*", "/">>
    IN IF clean # <<>> THEN tag \o <<"\n">> \o clean ELSE tag

\* syncToServer(): field is <<>> when the page has no userStyles textarea,
\* else <<its value>>.  [ok, field]: what it returns and the field after.
syncToServer(field, s) ==
    IF field = <<>> THEN [ok |-> FALSE, field |-> field]
    ELSE [ok |-> TRUE, field |-> <<buildSyncCSS(field[1], s)>>]

(***************************************************************************)
(* The controls of the panel (lines 222-387).                              *)
(***************************************************************************)
HexDigits ==
    {"0", "1", "2", "3", "4", "5", "6", "7", "8", "9",
     "a", "b", "c", "d", "e", "f", "A", "B", "C", "D", "E", "F"}

\* /^#[0-9a-fA-F]{6}$/.test(v)
isHexColor(v) ==
    /\ Len(v) = 7
    /\ v[1] = "#"
    /\ \A i \in 2..7 : v[i] \in HexDigits

\* The value an <input type=text> holds after input.value = v: the string
\* of v, null being the empty string, with the line breaks stripped.
RECURSIVE stripNewlines(_)
stripNewlines(text) ==
    IF text = <<>> THEN <<>>
    ELSE (IF Head(text) = "\n" THEN <<>> ELSE <<Head(text)>>)
         \o stripNewlines(Tail(text))

textInputValue(v) == IF v.t = "null" THEN <<>> ELSE stripNewlines(toText(v))


(***************************************************************************)
(* The color settings panel in its page: startup, injection of the         *)
(* section into the settings view, the controls, Save & Sync and Reset.    *)
(***************************************************************************)
\* SETTING_GROUPS (lines 178-220): the rows of the section, in order.
SETTING_GROUPS ==
    << [key |-> "coloredNicks",    type |-> "toggle"],
       [key |-> "nickBold",        type |-> "toggle"],
       [key |-> "timestampColor",  type |-> "color"],
       [key |-> "linkColor",       type |-> "color"],
       [key |-> "joinColor",       type |-> "color"],
       [key |-> "partColor",       type |-> "color"],
       [key |-> "quitColor",       type |-> "color"],
       [key |-> "actionColor",     type |-> "color"],
       [key |-> "noticeColor",     type |-> "color"],
       [key |-> "highlightBg",     type |-> "color"],
       [key |-> "highlightBorder", type |-> "color"],
       [key |-> "unreadMarker",    type |-> "color"],
       [key |-> "dateMarker",      type |-> "color"],
       [key |-> "bgColor",         type |-> "color"],
       [key |-> "windowBg",        type |-> "color"],
       [key |-> "sidebarBg",       type |-> "color"],
       [key |-> "inputBg",         type |-> "color"],
       [key |-> "textColor",       type |-> "color"],
       [key |-> "mutedColor",      type |-> "color"],
       [key |-> "borderColor",     type |-> "color"],
       [key |-> "accentColor",     type |-> "color"] >>

\* What the control of a row shows when buildUI has made it: the checkbox
\* its checked state (line 268), the hex field its value (line 307).
controlOf(row, s) ==
    IF row.type = "toggle"
    THEN [checked |-> toBoolean(getProp(s, row.key)), hex |-> <<>>]
    ELSE [checked |-> FALSE, hex |-> textInputValue(getProp(s, row.key))]

sectionOf(s) ==
    [i \in DOMAIN SETTING_GROUPS |-> controlOf(SETTING_GROUPS[i], s)]

rowOf(key) == CHOOSE i \in DOMAIN SETTING_GROUPS : SETTING_GROUPS[i].key = key

\* The state of the panel and of the parts of the page it works on.
Panel ==
    [settings |-> settings, storage |-> storage, rootStyle |-> rootStyle,
     styleBlock |-> styleBlock, styleField |-> styleField, view |-> view,
     sections |-> sections, injectTimers |-> injectTimers]

InstallPanel(p) ==
    /\ settings' = p.settings
    /\ storage' = p.storage
    /\ rootStyle' = p.rootStyle
    /\ styleBlock' = p.styleBlock
    /\ styleField' = p.styleField
    /\ view' = p.view
    /\ sections' = p.sections
    /\ injectTimers' = p.injectTimers

\* save(settings) then applyAll(), as the handlers of the controls call them.
saveAndApply(p) ==
    LET applied == applyAll(p.rootStyle, p.settings)
    IN [p EXCEPT !.storage = save(p.settings),
                 !.rootStyle = applied.root,
                 !.styleBlock = applied.block]

buildUIAlways(p) ==
    IF ~p.view THEN p
    ELSE [p EXCEPT !.sections = Append(@, sectionOf(p.settings))]

\* buildUI() (lines 222-387): a section is appended to the settings view
\* when the view is there and the document holds no section.
buildUI(p) ==
    IF ~p.view THEN p
    ELSE IF p.sections # <<>> THEN p
    ELSE [p EXCEPT !.sections = Append(@, sectionOf(p.settings))]

\* The callback of the panel's MutationObserver (lines 405-410), once per
\* installed observer: a delayed tryInject when the settings view is there
\* without a section.
observerCallback(p, n) ==
    IF p.view /\ p.sections = <<>>
    THEN [p EXCEPT !.injectTimers = @ + n]
    ELSE p

\* The change handler of a checkbox (lines 286-292), the box now showing b.
toggleChange(p, sec, key, b) ==
    LET p1 == [p EXCEPT !.settings = setProp(@, key, JBool(b)),
                        !.sections[sec][rowOf(key)].checked = b]
    IN saveAndApply(p1)

swatchInputNoApply(p, sec, key, c) ==
    LET p1 == [p EXCEPT !.settings = setProp(@, key, JStr(c)),
                        !.sections[sec][rowOf(key)].hex = textInputValue(JStr(c))]
    IN [p1 EXCEPT !.storage = save(p1.settings)]

\* The input handler of a color swatch (lines 311-316), showing color c.
swatchInput(p, sec, key, c) ==
    LET p1 == [p EXCEPT !.settings = setProp(@, key, JStr(c)),
                        !.sections[sec][rowOf(key)].hex = textInputValue(JStr(c))]
    IN saveAndApply(p1)

hexChangeNoRevert(p, sec, key, typed) ==
    LET v == trim(typed)
        p0 == [p EXCEPT !.sections[sec][rowOf(key)].hex = typed]
    IN IF isHexColor(v)
       THEN saveAndApply([p0 EXCEPT !.settings = setProp(@, key, JStr(v))])
       ELSE p0

\* The change handler of a hex field (lines 318-328), the user having left
\* the text `typed` in it.
hexChange(p, sec, key, typed) ==
    LET v == trim(typed)
        p0 == [p EXCEPT !.sections[sec][rowOf(key)].hex = typed]
    IN IF isHexColor(v)
       THEN saveAndApply([p0 EXCEPT !.settings = setProp(@, key, JStr(v))])
       ELSE [p0 EXCEPT !.sections[sec][rowOf(key)].hex =
                           textInputValue(getProp(p.settings, key))]

\* The click handler of Save & Sync (lines 347-365).
syncClick(p) ==
    LET p1 == [p EXCEPT !.storage = save(p.settings)]
    IN [p1 EXCEPT !.styleField = syncToServer(p1.styleField, p1.settings).field]

resetClickNoSave(p) ==
    LET applied == applyAll(p.rootStyle, objectAssign(DEFAULTS, JNull))
        p1 == [p EXCEPT !.settings = objectAssign(DEFAULTS, JNull),
                        !.rootStyle = applied.root,
                        !.styleBlock = applied.block]
        p2 == [p1 EXCEPT !.sections = IF @ = <<>> THEN @ ELSE Tail(@)]
    IN buildUI(p2)

\* The click handler of Reset to Defaults (lines 373-381): the section
\* found by its id, the first in the document, is removed.
resetClick(p) ==
    LET p1 == saveAndApply([p EXCEPT !.settings = objectAssign(DEFAULTS, JNull)])
        p2 == [p1 EXCEPT !.sections = IF @ = <<>> THEN @ ELSE Tail(@)]
    IN buildUI(p2)

\* The page before the panel's init has run: nothing applied, no app root,
\* no settings view, one init timer pending (lines 419-425).
PageAtStart ==
    /\ rootStyle = [n \in RootVarNames |-> <<>>]
    /\ styleBlock = <<>>
    /\ app = FALSE
    /\ view = FALSE
    /\ sections = <<>>
    /\ initTimers = 1
    /\ observing = 0
    /\ injectTimers = 0

\* The observer of the avatar injector before any mutation: no timer set.
ObserverAtStart ==
    /\ throttleTimer = NoTimer
    /\ trailingTimer = NoTimer
    /\ sinceLeading = THROTTLE_MS
    /\ quiet = TRAILING_MS
    /\ unscanned = FALSE

\* The avatar injector when its script has run (lines 279-285): one init
\* timer, nothing installed.
InitAtStart ==
    /\ avatarInits = <<INIT_DELAY>>
    /\ observerOn = 0
    /\ intervalOn = 0
    /\ intervalTimer = NoTimer

\* What the host renders into the name elements 1..5: nothing yet, or one of
\* the views below.  Going from one view to another re-uses the elements.
EmptyPage == [e \in Elems |-> NoName]

Pages ==
    { EmptyPage,
      <<"alice", "Alice", "bob", "ChanServ", "bob">>,
      <<"ChanServ", "bob", "alice", "bob", NoName>> }

Init ==
    /\ cache = <<>>
    /\ queue = <<>>
    /\ activeCount = 0
    /\ pending = EmptyBag
    /\ settled = <<>>
    /\ names = EmptyPage
    /\ avatars = [n \in Nodes |-> <<>>]
    /\ now = 0
    /\ storage = <<>>
    /\ userStyles = <<>>
    /\ settings = load(storage, userStyles)
    /\ history = <<>>
    /\ styleField = <<>>
    /\ PageAtStart
    /\ ObserverAtStart
    /\ InitAtStart

\* A task runs only when no promise reaction is waiting.
Idle == settled = <<>>

\* scanAll as a task: the interval, the observer or a navigation timer fires.
ScanAll ==
    /\ Idle
    /\ Install(scanAll(State, names, now))
    /\ UNCHANGED <<settled, names, now>>
    /\ UNCHANGED panelVars
    /\ UNCHANGED pageVars
    /\ UNCHANGED observerVars
    /\ UNCHANGED initVars

\* A lookup in flight settles with response res: the .then()/.catch()
\* callbacks run; the .finally() callback is the next reaction.
Respond(item, res) ==
    /\ Idle
    /\ BagIn(item, pending)
    /\ LET st0 == [State EXCEPT !.pending = @ (-) SetToBag({item})]
       IN Install(IF rejected(res)
                  THEN catchHandler(st0, item.key, now)
                  ELSE thenData(st0, names, item.nick, item.key, res, now))
    /\ settled' = <<[nick |-> item.nick, key |-> item.key, res |-> res]>>
    /\ UNCHANGED <<names, now>>
    /\ UNCHANGED panelVars
    /\ UNCHANGED pageVars
    /\ UNCHANGED observerVars
    /\ UNCHANGED initVars

Finally ==
    /\ settled # <<>>
    /\ Install(finallyHandler(State))
    /\ settled' = <<>>
    /\ UNCHANGED <<names, now>>
    /\ UNCHANGED panelVars
    /\ UNCHANGED pageVars
    /\ UNCHANGED observerVars
    /\ UNCHANGED initVars

\* The host renders another view: the name elements are re-used for other
\* nicknames, or lose their data-name; their children stay.
HostRender(page) ==
    /\ Idle
    /\ names # page
    /\ names' = page
    /\ UNCHANGED <<cache, queue, activeCount, pending, settled, avatars, now>>
    /\ UNCHANGED panelVars
    /\ UNCHANGED pageVars
    /\ UNCHANGED observerVars
    /\ UNCHANGED initVars

\* img.onerror of the avatar at position i of a node (lines 55-57).
ImgError(node, i) ==
    /\ Idle
    /\ i \in DOMAIN avatars[node]
    /\ avatars' = [avatars EXCEPT ![node] =
                      SubSeq(@, 1, i - 1) \o SubSeq(@, i + 1, Len(@))]
    /\ UNCHANGED <<cache, queue, activeCount, pending, settled, names, now>>
    /\ UNCHANGED panelVars
    /\ UNCHANGED pageVars
    /\ UNCHANGED observerVars
    /\ UNCHANGED initVars

Tick ==
    /\ Idle
    /\ now < MaxTicks * TickMs
    /\ now' = now + TickMs
    /\ UNCHANGED <<cache, queue, activeCount, pending, settled, names, avatars>>
    /\ UNCHANGED panelVars
    /\ UNCHANGED pageVars
    /\ UNCHANGED observerVars
    /\ UNCHANGED initVars

Next ==
    \/ ScanAll
    \/ \E item \in BagToSet(pending), res \in Responses : Respond(item, res)
    \/ Finally
    \/ \E page \in Pages : HostRender(page)
    \/ \E node \in Nodes, i \in 1..2 : ImgError(node, i)
    \/ Tick

Spec == Init /\ [][Next]_vars

(***************************************************************************)
(* The lookups under the assumption that every lookup in flight completes: *)
(* scans, renderings of the host and completions, at one time of the       *)
(* clock.  A lookup of each nickname that is in flight again and again     *)
(* settles, and a .finally() callback that is due runs.                    *)
(***************************************************************************)
\* The lookups the scan can enqueue: those of the nicknames that are no
\* service names (line 173).
Lookups ==
    { [nick |-> n, key |-> toLowerCase(n)] : n \in { m \in Nicks : ~isServiceNick(m) } }

NextLive ==
    \/ ScanAll
    \/ \E item \in BagToSet(pending), res \in Responses : Respond(item, res)
    \/ Finally
    \/ \E page \in Pages : HostRender(page)

Completes(item) == \E res \in Responses : Respond(item, res)

SpecLive ==
    /\ Init
    /\ [][NextLive]_vars
    /\ \A item \in Lookups : SF_vars(Completes(item))
    /\ WF_vars(Finally)

(***************************************************************************)
(* The mutation observer of the avatar injector (lines 225-245): its two   *)
(* timers, on a clock that advances in steps of ClockStep.  A timer holds  *)
(* the time left until it is due, and fires when due or later.             *)
(***************************************************************************)
\* The MutationObserver callback (lines 234-245), run after a mutation
\* inside the app root: [st, throttle, trailing, scanned] afterwards.
mutationCallbackNoTrailing(st, nm, t, throttle, trailing) ==
    IF throttle = NoTimer
    THEN [st |-> scanAll(st, nm, t), throttle |-> THROTTLE_MS,
          trailing |-> trailing, scanned |-> TRUE]
    ELSE [st |-> st, throttle |-> throttle,
          trailing |-> trailing, scanned |-> FALSE]

mutationCallback(st, nm, t, throttle, trailing) ==
    IF throttle = NoTimer
    THEN [st |-> scanAll(st, nm, t), throttle |-> THROTTLE_MS,
          trailing |-> TRAILING_MS, scanned |-> TRUE]
    ELSE [st |-> st, throttle |-> throttle,
          trailing |-> TRAILING_MS, scanned |-> FALSE]

\* The host changes the tree under the app root, leaving the name elements
\* as page; the callback follows.
Mutation(page) ==
    /\ Idle
    /\ names' = page
    /\ LET r == mutationCallback(State, page, now, throttleTimer, trailingTimer)
       IN /\ Install(r.st)
          /\ throttleTimer' = r.throttle
          /\ trailingTimer' = r.trailing
          /\ sinceLeading' = IF r.scanned THEN 0 ELSE sinceLeading
          /\ unscanned' = ~r.scanned
    /\ quiet' = 0
    /\ UNCHANGED <<settled, now>>
    /\ UNCHANGED panelVars
    /\ UNCHANGED pageVars
    /\ UNCHANGED initVars

\* The throttle timer fires (lines 238-240).
ThrottleExpire ==
    /\ Idle
    /\ throttleTimer = 0
    /\ throttleTimer' = NoTimer
    /\ UNCHANGED <<trailingTimer, sinceLeading, quiet, unscanned>>
    /\ UNCHANGED avatarVars
    /\ UNCHANGED panelVars
    /\ UNCHANGED pageVars
    /\ UNCHANGED initVars

\* The trailing timer fires: scanAll (line 244).
TrailingFire ==
    /\ Idle
    /\ trailingTimer = 0
    /\ Install(scanAll(State, names, now))
    /\ trailingTimer' = NoTimer
    /\ unscanned' = FALSE
    /\ UNCHANGED <<throttleTimer, sinceLeading, quiet>>
    /\ UNCHANGED <<settled, names, now>>
    /\ UNCHANGED panelVars
    /\ UNCHANGED pageVars
    /\ UNCHANGED initVars

timeLeft(timer) ==
    IF timer = NoTimer THEN NoTimer
    ELSE IF timer > ClockStep THEN timer - ClockStep ELSE 0

elapsed(time, cap) == IF time + ClockStep < cap THEN time + ClockStep ELSE cap

\* ClockStep of time passes.
Advance ==
    /\ Idle
    /\ throttleTimer' = timeLeft(throttleTimer)
    /\ trailingTimer' = timeLeft(trailingTimer)
    /\ sinceLeading' = elapsed(sinceLeading, THROTTLE_MS)
    /\ quiet' = elapsed(quiet, TRAILING_MS)
    /\ UNCHANGED unscanned
    /\ UNCHANGED avatarVars
    /\ UNCHANGED panelVars
    /\ UNCHANGED pageVars
    /\ UNCHANGED initVars

NextObserver ==
    \/ \E page \in Pages : Mutation(page)
    \/ ThrottleExpire
    \/ TrailingFire
    \/ Advance

\* Time passes, and a timer that is due fires.
SpecObserver ==
    /\ Init
    /\ [][NextObserver]_vars
    /\ WF_vars(ThrottleExpire)
    /\ WF_vars(TrailingFire)
    /\ WF_vars(Advance)

(***************************************************************************)
(* The settings round trip: save() and load() applied to settings          *)
(* mappings, stored items and custom-style texts drawn from the sets       *)
(* below.                                                                  *)
(***************************************************************************)
\* Values a setting can hold besides its default: the other boolean, a
\* picked color, and strings and null as a stored JSON text can bring in.
PickedColor == Hex("A", "b", "0", "1", "9", "F")

OddString == JStr(<<"a", "\"", "\\", "*", "/", " ", "\n", "}">>)

Mappings ==
    { setProp(setProp(setProp(DEFAULTS, "coloredNicks", b),
                      "timestampColor", c), "accentColor", a) :
        b \in {JBool(TRUE), JBool(FALSE)},
        c \in {DEFAULTS[3].v, PickedColor, OddString, JStr(<<>>), JNull},
        a \in {DEFAULTS[21].v, PickedColor} }

\* What localStorage holds under STORAGE_KEY at the start: nothing, or a
\* text some earlier session, or anything else, left there.
StoredItems ==
    { <<>>,
      << <<>> >>,
      << <<"{", "\"">> >>,
      << <<"null">> >>,
      << <<"\"", "a", "b", "\"">> >>,
      << <<" ", "{", "\"", "nickBold", "\"", " ", ":", "true", ",", "\n",
           "\"", "extra", "\"", ":", "\"", "x", "\\", "\"", "\"", "}", " ">> >>,
      << JSONstringify(setProp(DEFAULTS, "linkColor", PickedColor)) >> }

\* What #user-specified-css holds: the element is absent, or its text is
\* empty, plain CSS, CSS with a tagged block of settings, or CSS with a
\* tagged block that is not JSON.
TagOpen == <<"/", "*", " ", SYNC_TAG, ":", " ">>

TagClose == <<" ", "*", "/">>

StyleTexts ==
    { <<>>,
      << <<>> >>,
      << <<"a{color:red}", "/", "*", "x", "*", "/">> >>,
      << TagOpen \o JSONstringify(setProp(DEFAULTS, "nickBold", JBool(TRUE)))
           \o TagClose \o <<"\n", "a{color:red}">> >>,
      << TagOpen \o <<"{", "\"", "nickBold", "\"", ":">> \o TagClose >> }

InitSettings ==
    /\ settings \in Mappings
    /\ storage \in StoredItems
    /\ userStyles \in StyleTexts
    /\ history = <<>>
    /\ styleField = <<>>
    /\ PageAtStart
    /\ ObserverAtStart
    /\ InitAtStart
    /\ cache = <<>>
    /\ queue = <<>>
    /\ activeCount = 0
    /\ pending = EmptyBag
    /\ settled = <<>>
    /\ names = EmptyPage
    /\ avatars = [n \in Nodes |-> <<>>]
    /\ now = 0

\* save(settings) (lines 56-58), as every accepted change of the panel
\* calls it.
Save ==
    /\ Len(history) < MaxOps
    /\ storage' = save(settings)
    /\ history' = Append(history, "save")
    /\ UNCHANGED <<settings, userStyles>>
    /\ UNCHANGED avatarVars
    /\ UNCHANGED observerVars
    /\ UNCHANGED initVars
    /\ UNCHANGED pageVars

\* A fresh session: var settings = load() (line 108).
Load ==
    /\ Len(history) < MaxOps
    /\ settings' = load(storage, userStyles)
    /\ history' = Append(history, "load")
    /\ UNCHANGED <<storage, userStyles>>
    /\ UNCHANGED avatarVars
    /\ UNCHANGED observerVars
    /\ UNCHANGED initVars
    /\ UNCHANGED pageVars

\* The host replaces the custom-style text, as when it receives the style
\* text synced from the server.
HostStyles(text) ==
    /\ Len(history) < MaxOps
    /\ userStyles # text
    /\ userStyles' = text
    /\ history' = Append(history, "styles")
    /\ UNCHANGED <<settings, storage>>
    /\ UNCHANGED avatarVars
    /\ UNCHANGED observerVars
    /\ UNCHANGED initVars
    /\ UNCHANGED pageVars

NextSettings ==
    \/ Save
    \/ Load
    \/ \E text \in StyleTexts : HostStyles(text)

SpecSettings == InitSettings /\ [][NextSettings]_vars

(***************************************************************************)
(* The panel as a state machine.                                           *)
(***************************************************************************)
\* The rows whose controls the user operates, and what is entered there.
ToggleKeys == {"coloredNicks"}

ColorKeys == {"timestampColor"}

SwatchColors == {<<"#", "a", "b", "0", "1", "9", "f">>}

TypedTexts ==
    { <<"#", "A", "b", "0", "1", "9", "F">>,
      <<"#", "A", "b", "0", "1", "9">>,
      <<" ", "r", "e", "d", "\t">> }

\* What the session finds stored, and in the custom-style field.
PanelStoredItems ==
    { <<>>,
      << <<"{", "\"">> >>,
      << JSONstringify(setProp(setProp(DEFAULTS, "accentColor", OddString),
                               "extra", JBool(TRUE))) >> }

UserCSS == <<"a{color:red}", "\n", "b{}">>

FieldTexts ==
    { <<>>,
      << <<>> >>,
      << <<" ">> \o UserCSS \o <<"\n">> >>,
      << <<"a{}", "\n">> \o TagOpen
           \o JSONstringify(setProp(DEFAULTS, "nickBold", JBool(TRUE)))
           \o TagClose \o <<"\n", "\n">> \o UserCSS >> }

InitPanel ==
    /\ storage \in PanelStoredItems
    /\ userStyles = <<>>
    /\ settings = load(storage, userStyles)
    /\ history = <<>>
    /\ styleField \in FieldTexts
    /\ PageAtStart
    /\ ObserverAtStart
    /\ InitAtStart
    /\ cache = <<>>
    /\ queue = <<>>
    /\ activeCount = 0
    /\ pending = EmptyBag
    /\ settled = <<>>
    /\ names = EmptyPage
    /\ avatars = [n \in Nodes |-> <<>>]
    /\ now = 0

\* init() (lines 394-417), run by its timer.
PanelInit ==
    /\ initTimers > 0
    /\ LET applied == applyAll(rootStyle, settings)
       IN /\ rootStyle' = applied.root
          /\ styleBlock' = applied.block
    /\ IF app
       THEN initTimers' = initTimers - 1 /\ observing' = observing + 1
       ELSE initTimers' = (initTimers - 1) + 1 /\ UNCHANGED observing
    /\ UNCHANGED <<settings, storage, userStyles, history, styleField, app,
                   view, sections, injectTimers>>
    /\ UNCHANGED avatarVars
    /\ UNCHANGED observerVars
    /\ UNCHANGED initVars

\* The host renders its app root.
HostShowsApp ==
    /\ ~app
    /\ app' = TRUE
    /\ UNCHANGED <<settings, storage, userStyles, history, rootStyle,
                   styleBlock, styleField, view, sections, initTimers,
                   observing, injectTimers>>
    /\ UNCHANGED avatarVars
    /\ UNCHANGED observerVars
    /\ UNCHANGED initVars

\* A step of the panel's own code or of the host inside the app root that
\* leaves the panel in state p, followed by the observer callbacks.
PanelStep(p) ==
    /\ observerCallback(p, observing).injectTimers <= MaxInjectTimers
    /\ InstallPanel(observerCallback(p, observing))
    /\ UNCHANGED <<userStyles, history, app, initTimers, observing>>
    /\ UNCHANGED avatarVars
    /\ UNCHANGED observerVars
    /\ UNCHANGED initVars

\* The host opens the settings view.
HostShowsSettings ==
    /\ app /\ ~view
    /\ PanelStep([Panel EXCEPT !.view = TRUE])

\* The host closes the settings view, with all that is in it.
HostHidesSettings ==
    /\ view
    /\ PanelStep([Panel EXCEPT !.view = FALSE, !.sections = <<>>])

\* The host renders the settings view anew, without the section.
HostRerender ==
    /\ view
    /\ PanelStep([Panel EXCEPT !.sections = <<>>])

\* A hashchange event (lines 414-416): each listener sets a timer.
HashChange ==
    /\ observing > 0
    /\ injectTimers + observing <= MaxInjectTimers
    /\ injectTimers' = injectTimers + observing
    /\ UNCHANGED <<settings, storage, userStyles, history, rootStyle,
                   styleBlock, styleField, app, view, sections, initTimers,
                   observing>>
    /\ UNCHANGED avatarVars
    /\ UNCHANGED observerVars
    /\ UNCHANGED initVars

\* A delayed tryInject runs (lines 390-392).
TryInject ==
    /\ injectTimers > 0
    /\ PanelStep(buildUI([Panel EXCEPT !.injectTimers = @ - 1]))

Toggle(sec, key) ==
    /\ sec \in DOMAIN sections
    /\ PanelStep(toggleChange(Panel, sec, key, ~sections[sec][rowOf(key)].checked))

PickColor(sec, key, c) ==
    /\ sec \in DOMAIN sections
    /\ PanelStep(swatchInput(Panel, sec, key, c))

HexEdit(sec, key, typed) ==
    /\ sec \in DOMAIN sections
    /\ sections[sec][rowOf(key)].hex # typed
    /\ PanelStep(hexChange(Panel, sec, key, typed))

\* A click on Save & Sync, while the field is at most MaxFieldExtra longer
\* than the JSON text of the settings.
SyncClick ==
    /\ sections # <<>>
    /\ styleField # <<>> =>
          Len(styleField[1]) <= Len(JSONstringify(settings)) + MaxFieldExtra
    /\ PanelStep(syncClick(Panel))

ResetClick ==
    /\ sections # <<>>
    /\ PanelStep(resetClick(Panel))

NextPanel ==
    \/ PanelInit
    \/ HostShowsApp
    \/ HostShowsSettings
    \/ HostHidesSettings
    \/ HostRerender
    \/ HashChange
    \/ TryInject
    \/ \E sec \in 1..2, key \in ToggleKeys : Toggle(sec, key)
    \/ \E sec \in 1..2, key \in ColorKeys, c \in SwatchColors : PickColor(sec, key, c)
    \/ \E sec \in 1..2, key \in ColorKeys, typed \in TypedTexts : HexEdit(sec, key, typed)
    \/ SyncClick
    \/ ResetClick

SpecPanel == InitPanel /\ [][NextPanel]_vars

(***************************************************************************)
(* The way of the settings to another device: Save & Sync writes them into *)
(* the custom-style field, the host carries the field's text into the      *)
(* custom-style element, and a session without a stored item loads them.   *)
(***************************************************************************)
InitSync ==
    /\ settings \in Mappings
    /\ styleField \in FieldTexts
    /\ storage = <<>>
    /\ userStyles = <<>>
    /\ history = <<>>
    /\ PageAtStart
    /\ ObserverAtStart
    /\ InitAtStart
    /\ cache = <<>>
    /\ queue = <<>>
    /\ activeCount = 0
    /\ pending = EmptyBag
    /\ settled = <<>>
    /\ names = EmptyPage
    /\ avatars = [n \in Nodes |-> <<>>]
    /\ now = 0

\* syncToServer() on a page that has the field (lines 90-106).
SyncField ==
    /\ Len(history) < MaxOps
    /\ styleField # <<>>
    /\ styleField' = syncToServer(styleField, settings).field
    /\ history' = Append(history, "sync")
    /\ UNCHANGED <<settings, storage, userStyles, rootStyle, styleBlock, app,
                   view, sections, initTimers, observing, injectTimers>>
    /\ UNCHANGED avatarVars
    /\ UNCHANGED observerVars
    /\ UNCHANGED initVars

\* The host makes the field's text the text of #user-specified-css.
HostApplies ==
    /\ Len(history) < MaxOps
    /\ styleField # <<>>
    /\ userStyles # styleField
    /\ userStyles' = styleField
    /\ history' = Append(history, "styles")
    /\ UNCHANGED <<settings, storage, styleField, rootStyle, styleBlock, app,
                   view, sections, initTimers, observing, injectTimers>>
    /\ UNCHANGED avatarVars
    /\ UNCHANGED observerVars
    /\ UNCHANGED initVars

NextSync ==
    \/ SyncField
    \/ HostApplies
    \/ Load

SpecSync == InitSync /\ [][NextSync]_vars

(***************************************************************************)
(* The start of the avatar injector (lines 254-285): init is called from a *)
(* timer, and calls itself again from a timer while the page has no app    *)
(* root.  Time passes in steps of InitClockStep.                           *)
(***************************************************************************)
\* The pending timers without the i-th.
without(timers, i) == SubSeq(timers, 1, i - 1) \o SubSeq(timers, i + 1, Len(timers))

\* init (lines 254-277) on a page that holds #app or not; `inits` are the
\* other pending init timers: the state, the timers, the number of
\* observers and of intervals installed, and the interval timer afterwards.
initAlwaysRetry(st, nm, t, hasApp, inits, observers, intervals, interval) ==
    IF ~hasApp
    THEN [st |-> st, inits |-> Append(inits, RETRY_DELAY), observers |-> observers,
          intervals |-> intervals, interval |-> interval]
    ELSE [st |-> scanAll(st, nm, t), inits |-> Append(inits, RETRY_DELAY),
          observers |-> observers + 1,
          intervals |-> intervals + 1, interval |-> SCAN_INTERVAL]

init(st, nm, t, hasApp, inits, observers, intervals, interval) ==
    IF ~hasApp
    THEN [st |-> st, inits |-> Append(inits, RETRY_DELAY), observers |-> observers,
          intervals |-> intervals, interval |-> interval]
    ELSE [st |-> scanAll(st, nm, t), inits |-> inits,
          observers |-> observers + 1,
          intervals |-> intervals + 1, interval |-> SCAN_INTERVAL]

\* The i-th init timer fires.
AvatarInit(i) ==
    /\ Idle
    /\ i \in DOMAIN avatarInits
    /\ avatarInits[i] = 0
    /\ LET r == init(State, names, now, app, without(avatarInits, i),
                     observerOn, intervalOn, intervalTimer)
       IN /\ Install(r.st)
          /\ avatarInits' = r.inits
          /\ observerOn' = r.observers
          /\ intervalOn' = r.intervals
          /\ intervalTimer' = r.interval
    /\ UNCHANGED <<settled, names, now>>
    /\ UNCHANGED panelVars
    /\ UNCHANGED pageVars
    /\ UNCHANGED observerVars

\* The interval timer fires: scanAll, and the next period starts (line 276).
IntervalScan ==
    /\ Idle
    /\ intervalOn > 0
    /\ intervalTimer = 0
    /\ Install(scanAll(State, names, now))
    /\ intervalTimer' = SCAN_INTERVAL
    /\ UNCHANGED <<avatarInits, observerOn, intervalOn>>
    /\ UNCHANGED <<settled, names, now>>
    /\ UNCHANGED panelVars
    /\ UNCHANGED pageVars
    /\ UNCHANGED observerVars

leftAfter(timer, step) ==
    IF timer = NoTimer THEN NoTimer
    ELSE IF timer > step THEN timer - step ELSE 0

\* InitClockStep of time passes.
InitClock ==
    /\ Idle
    /\ avatarInits' = [i \in DOMAIN avatarInits |-> leftAfter(avatarInits[i], InitClockStep)]
    /\ intervalTimer' = leftAfter(intervalTimer, InitClockStep)
    /\ UNCHANGED <<observerOn, intervalOn>>
    /\ UNCHANGED avatarVars
    /\ UNCHANGED panelVars
    /\ UNCHANGED pageVars
    /\ UNCHANGED observerVars

NextInit ==
    \/ HostShowsApp
    \/ \E i \in 1..MaxInits : AvatarInit(i)
    \/ IntervalScan
    \/ InitClock
    \/ \E page \in Pages : HostRender(page)

\* Time passes and a timer that is due fires; the host owes nothing.
SpecInit ==
    /\ Init
    /\ [][NextInit]_vars
    /\ WF_vars(InitClock)
    /\ WF_vars(\E i \in 1..MaxInits : AvatarInit(i))
    /\ WF_vars(IntervalScan)

(***************************************************************************)
(* Vocabulary of the properties.                                           *)
(***************************************************************************)
Keys == { toLowerCase(n) : n \in Nicks }

Items == { [nick |-> n, key |-> toLowerCase(n)] : n \in Nicks }

\* The lookups of key k among the fetches p not yet settled.
LookupsIn(p, k) ==
    LET S == { it \in BagToSet(p) : it.key = k }
    IN BagCardinality([it \in S |-> p[it]])

\* The entries of key k in the queue q.
QueuedIn(q, k) == Cardinality({ i \in DOMAIN q : q[i].key = k })

IsPositive(c, k) == k \in DOMAIN c /\ Truthy(c[k].url)

IsNegative(c, k) == k \in DOMAIN c /\ ~Truthy(c[k].url)

\* The nickname's lowercase form is in the fixed service-account set.
ServiceName(n) == toLowerCase(n) \in serviceSet

\* A name element of a nickname that is looked up: named, not a service
\* account, in a known context.
Recognized(nm, el) ==
    /\ nm[el] # NoName
    /\ ~ServiceName(nm[el])
    /\ getContext(el) # "other"

IsServiceElem(nm, el) == nm[el] # NoName /\ ServiceName(nm[el])

\* The node an avatar for element el goes into.
Target(el) == targetOf(el, getContext(el))

\* Node n has, after the step, an avatar element it did not have before.
Injected(n) ==
    \E i \in DOMAIN avatars'[n] :
        \A j \in DOMAIN avatars[n] : avatars[n][j] # avatars'[n][i]

HasAvatarOf(av, el, nick) ==
    \E i \in DOMAIN av[Target(el)] : av[Target(el)][i].nick = nick

(***************************************************************************)
(* C1.  In every reachable state the number of avatar lookups in flight    *)
(* (fetches not yet settled, and the one whose .finally() has not yet run) *)
(* is at most MAX_CONCURRENT.                                              *)
(***************************************************************************)
C1_ConcurrencyBounded ==
    BagCardinality(pending) + Len(settled) <= MAX_CONCURRENT

\* All slots are taken and a lookup waits in the queue.
C1_Witness ==
    /\ BagCardinality(pending) = MAX_CONCURRENT
    /\ queue # <<>>

(***************************************************************************)
(* C2.  Sightings of one key collapse to one fetch: there are never two    *)
(* lookups of the same key in flight, nor one in flight while the key is   *)
(* in the queue.                                                           *)
(***************************************************************************)
C2_OneFetchPerKey ==
    \A k \in Keys :
        /\ LookupsIn(pending, k) <= 1
        /\ LookupsIn(pending, k) = 1 => QueuedIn(queue, k) = 0

(***************************************************************************)
(* C3.  The queue holds no two entries with the same key and no entry      *)
(* whose key has a cache entry.                                            *)
(***************************************************************************)
C3_QueueClean ==
    \A k \in Keys :
        /\ QueuedIn(queue, k) <= 1
        /\ k \in DOMAIN cache => QueuedIn(queue, k) = 0

(***************************************************************************)
(* C4.  While the cache entry of a key is negative and younger than        *)
(* NEGATIVE_TTL, no step dispatches a lookup for that key.                 *)
(***************************************************************************)
C4_NoDispatchWhileNegative ==
    [][ \A k \in Keys :
          (IsNegative(cache, k) /\ now - cache[k].ts < NEGATIVE_TTL)
              => LookupsIn(pending', k) <= LookupsIn(pending, k) ]_vars

(***************************************************************************)
(* C5.  A scan that sees a nickname whose negative entry is older than     *)
(* NEGATIVE_TTL evicts the entry and triggers exactly one re-query for the *)
(* key: one lookup more is queued or in flight after the scan.             *)
(***************************************************************************)
C5_OneRequeryPerScan ==
    [][ ScanAll =>
          \A k \in Keys :
            ( /\ IsNegative(cache, k)
              /\ now - cache[k].ts >= NEGATIVE_TTL
              /\ \E el \in Elems : Recognized(names, el) /\ toLowerCase(names[el]) = k )
            => /\ k \notin DOMAIN cache'
               /\ (LookupsIn(pending', k) + QueuedIn(queue', k))
                    - (LookupsIn(pending, k) + QueuedIn(queue, k)) = 1 ]_vars

(***************************************************************************)
(* C6.  A positive cache entry stays: once a key has a non-null url, every *)
(* later state has the same url for it.                                    *)
(***************************************************************************)
C6_PositiveRetained ==
    [][ \A k \in Keys :
          IsPositive(cache, k)
              => (k \in DOMAIN cache' /\ cache'[k].url = cache[k].url) ]_vars

(***************************************************************************)
(* C7.  Every injection target holds at most one avatar element.           *)
(***************************************************************************)
C7_AtMostOneAvatar == \A n \in Nodes : Len(avatars[n]) <= 1

\* Two name elements with different nicknames, both positively cached,
\* share a target, and the target holds one avatar.
C7_Witness ==
    \E e1, e2 \in Elems :
        /\ Recognized(names, e1) /\ Recognized(names, e2)
        /\ Target(e1) = Target(e2)
        /\ names[e1] # names[e2]
        /\ IsPositive(cache, toLowerCase(names[e1]))
        /\ IsPositive(cache, toLowerCase(names[e2]))
        /\ Len(avatars[Target(e1)]) = 1

(***************************************************************************)
(* C8.  For a nickname whose lowercase form is a service account: its key  *)
(* is never queued, never in flight and never in the cache, no avatar      *)
(* element is ever made for it, and no step injects an avatar into the     *)
(* injection target of one of its name elements.                           *)
(***************************************************************************)
C8_ServiceUntouched ==
    \A n \in Nicks :
        ServiceName(n) =>
            /\ toLowerCase(n) \notin DOMAIN cache
            /\ QueuedIn(queue, toLowerCase(n)) = 0
            /\ LookupsIn(pending, toLowerCase(n)) = 0
            /\ \A i \in DOMAIN settled : settled[i].key # toLowerCase(n)
            /\ \A node \in Nodes : \A i \in DOMAIN avatars[node] :
                   avatars[node][i].nick # n

\* As stated: whatever else is in the target of the service name element.
C8_NoInjectionNextToService ==
    []C8_ServiceUntouched
    /\ [][ \A el \in Elems :
             (IsServiceElem(names, el) /\ names'[el] = names[el])
                 => ~Injected(Target(el)) ]_vars

\* The target of el holds no name element of a nickname that is looked up.
OnlyServiceIn(nm, el) ==
    \A e2 \in Elems : Target(e2) = Target(el) => ~Recognized(nm, e2)

\* Amended: the target is not shared with a name element of a non-service
\* nickname.
C8_NoInjectionIntoServiceTarget ==
    []C8_ServiceUntouched
    /\ [][ \A el \in Elems :
             ( /\ IsServiceElem(names, el)
               /\ names'[el] = names[el]
               /\ OnlyServiceIn(names, el) )
                 => ~Injected(Target(el)) ]_vars

\* The nicklist shows a service name, written in mixed case, in an element
\* of its own while the avatar of another nickname of the same view has
\* been injected: the scan or a completion has acted on this view.
C8_Witness ==
    /\ names[1] = "ChanServ"
    /\ avatars[1] = <<>>
    /\ names[2] = "bob"
    /\ HasAvatarOf(avatars, 2, "bob")

(***************************************************************************)
(* C9.  When a lookup completes, the entry written for its key is positive *)
(* (the returned url) exactly when the response is OK and carries a        *)
(* non-null avatar_url not starting with /static/, and then every name     *)
(* element of that nickname in a recognized context has the avatar; in     *)
(* every other outcome the entry is negative, stamped with the completion  *)
(* time, and nothing is injected.                                          *)
(***************************************************************************)
\* The response is OK with a JSON object.
OkObject(res) == res.net /\ res.ok /\ res.body = "object"

NonStatic(u) == u.t = "str" /\ ~startsWith(u.s, <<"/", "static", "/">>)

\* What the completion of `item` leaves when it counts as positive or not.
\* (A completion is the step that fills `settled`.)
CompletionPost(item, res, positive) ==
    IF positive
    THEN /\ item.key \in DOMAIN cache'
         /\ cache'[item.key] = [url |-> res.avatar_url, ts |-> now]
         /\ \A el \in Elems :
               (names[el] = item.nick /\ getContext(el) # "other")
                   => HasAvatarOf(avatars', el, item.nick)
    ELSE /\ item.key \in DOMAIN cache'
         /\ cache'[item.key] = [url |-> Null, ts |-> now]
         /\ avatars' = avatars

\* As stated: every non-null avatar_url not starting with /static/.
C9_CompletionAsStated ==
    [][ (settled = <<>> /\ settled' # <<>>) =>
          LET res == settled'[1].res
          IN CompletionPost(settled'[1], res,
                            OkObject(res) /\ NonStatic(res.avatar_url)) ]_vars

\* Amended: the avatar_url is also not the empty string.
C9_Completion ==
    [][ (settled = <<>> /\ settled' # <<>>) =>
          LET res == settled'[1].res
          IN CompletionPost(settled'[1], res,
                            /\ OkObject(res)
                            /\ NonStatic(res.avatar_url)
                            /\ res.avatar_url.s # <<>>) ]_vars

\* A completion has just written a positive entry and the name elements of
\* its nickname show the avatar, one of them in a shared target.
C9_Witness ==
    /\ settled # <<>>
    /\ IsPositive(cache, settled[1].key)
    /\ cache[settled[1].key].ts = now
    /\ now > 0
    /\ \E el \in Elems :
          /\ names[el] = settled[1].nick
          /\ Target(el) # el
          /\ HasAvatarOf(avatars, el, settled[1].nick)

\* C10: loading in a fresh session what save() stored for a settings mapping
\* over the default keys yields that same mapping, whatever the custom-style
\* text holds at that time.
C10_SettingsRoundTrip ==
    [][ (Load /\ storage = save(settings)) => settings' = settings ]_vars

\* A mapping that differs from the defaults, also in a string that needs
\* escaping, was saved and then loaded in a fresh session, while the
\* custom-style text held a tagged block with other settings.
C10_Witness ==
    /\ Len(history) >= 2
    /\ history[Len(history) - 1] = "save"
    /\ history[Len(history)] = "load"
    /\ settings[3].v = OddString
    /\ settings[21].v = PickedColor
    /\ userStyles # <<>>
    /\ truthyValue(parseTagFromCSS(userStyles[1]))
    /\ objectAssign(DEFAULTS, parseTagFromCSS(userStyles[1]).val) # settings

(***************************************************************************)
(* Properties of the color settings panel.                                 *)
(***************************************************************************)
\* The stored item is the JSON text of the mapping s.
PersistedIs(item, s) ==
    /\ item # <<>>
    /\ JSONparse(item[1]) = [ok |-> TRUE, val |-> JObj(s)]

\* The value of a custom property that carries the setting v.
PropertyText(v) ==
    CASE v.t = "str"  -> v.s
      [] v.t = "bool" -> IF v.b THEN <<"true">> ELSE <<"false">>
      [] OTHER        -> <<>>

\* The root style and the override block are those derived from s.
AppliedIs(root, block, s) ==
    /\ \A i \in DOMAIN ROOT_VARS :
          root[ROOT_VARS[i].name] = PropertyText(getProp(s, ROOT_VARS[i].key))
    /\ block = <<overrideCSS(s)>>

\* C11: a Reset to Defaults leaves the settings in memory, the stored item
\* and the applied styles those of DEFAULTS, and a load from then on returns
\* DEFAULTS.
C11_ResetRestoresDefaults ==
    [][ ResetClick =>
          /\ settings' = DEFAULTS
          /\ PersistedIs(storage', DEFAULTS)
          /\ AppliedIs(rootStyle', styleBlock', DEFAULTS)
          /\ load(storage', userStyles') = DEFAULTS ]_vars

\* The settings are the defaults again although the field holds a synced
\* block with a picked timestamp color: an edit, a sync and then a reset.
C11_Witness ==
    /\ settings = DEFAULTS
    /\ PersistedIs(storage, DEFAULTS)
    /\ sections # <<>>
    /\ styleField # <<>>
    /\ parseTagFromCSS(styleField[1]).found
    /\ parseTagFromCSS(styleField[1]).val.t = "obj"
    /\ getProp(parseTagFromCSS(styleField[1]).val.props, "timestampColor")
          # getProp(DEFAULTS, "timestampColor")

\* The positions of the text where a tagged block opens.
TagOpeners(css) ==
    { i \in 1..Len(css) :
        /\ i + 1 <= Len(css) /\ css[i] = "/" /\ css[i + 1] = "*"
        /\ LET j == skipSpace(css, i + 2)
           IN j + 1 <= Len(css) /\ css[j] = SYNC_TAG /\ css[j + 1] = ":" }

AcceptedChange ==
    \/ \E sec \in DOMAIN sections, key \in ToggleKeys : Toggle(sec, key)
    \/ \E sec \in DOMAIN sections, key \in ColorKeys, c \in SwatchColors :
          PickColor(sec, key, c)
    \/ \E sec \in DOMAIN sections, key \in ColorKeys, typed \in TypedTexts :
          HexEdit(sec, key, typed) /\ isHexColor(trim(typed))

\* The steps in which a hex field refuses what was typed into it.
RejectedChange(sec, key) ==
    \E typed \in TypedTexts : HexEdit(sec, key, typed) /\ ~isHexColor(trim(typed))

\* C15: a change of a hex field to a text that, trimmed, is not '#' and six
\* hexadecimal digits leaves the settings in memory, the stored item and the
\* applied styles as they were, and the field shows the value of the setting.
C15_InvalidHexRejected ==
    [][ \A sec \in DOMAIN sections, key \in ColorKeys :
          RejectedChange(sec, key) =>
            /\ settings' = settings
            /\ storage' = storage
            /\ rootStyle' = rootStyle /\ styleBlock' = styleBlock
            /\ getProp(settings, key).t = "str"
            /\ sections'[sec][rowOf(key)].hex = getProp(settings, key).s ]_vars

\* A picked color is in effect, stored, and shown in the hex field of its
\* row: a state in which the field refuses the other texts typed into it.
C15_Witness ==
    /\ sections # <<>>
    /\ getProp(settings, "timestampColor") = JStr(<<"#", "a", "b", "0", "1", "9", "f">>)
    /\ sections[1][rowOf("timestampColor")].hex = getProp(settings, "timestampColor").s
    /\ PersistedIs(storage, settings)

\* The stored item and the applied styles agree with the settings in memory.
InStep(s, item, root, block) == PersistedIs(item, s) /\ AppliedIs(root, block, s)

\* C16: after every change a control of the panel accepts, the stored item
\* is the in-memory mapping and the applied styles are those derived from
\* it; and no later step lets the stored item or the styles fall behind.
C16_ChangeWritesThrough ==
    [][ /\ AcceptedChange => InStep(settings', storage', rootStyle', styleBlock')
        /\ ( /\ <<settings, storage, rootStyle, styleBlock>>'
                   # <<settings, storage, rootStyle, styleBlock>>
              /\ InStep(settings, storage, rootStyle, styleBlock) )
              => InStep(settings', storage', rootStyle', styleBlock') ]_vars

\* An accepted change has been made to settings that were loaded from a
\* stored item with a string that is no color and with a foreign key.
C16_Witness ==
    /\ getProp(settings, "accentColor") = OddString
    /\ \E i \in DOMAIN settings : settings[i].k = "extra"
    /\ getProp(settings, "timestampColor") # getProp(DEFAULTS, "timestampColor")
    /\ ~toBoolean(getProp(settings, "coloredNicks"))
    /\ PersistedIs(storage, settings)
    /\ AppliedIs(rootStyle, styleBlock, settings)

\* C17: the document never holds more than one color-settings section, and
\* an injection attempt made while it holds one changes nothing but the
\* pending attempts.
C17_InjectedOnce ==
    [][ /\ Len(sections') <= 1
        /\ (TryInject /\ sections # <<>>) =>
              UNCHANGED <<settings, storage, userStyles, rootStyle, styleBlock,
                          styleField, app, view, sections>> ]_vars

\* The section is in the settings view while two more injection attempts
\* are pending.
C17_Witness ==
    /\ Len(sections) = 1
    /\ view
    /\ injectTimers = 2

(***************************************************************************)
(* Properties of loading and of the sync text.                             *)
(***************************************************************************)
\* C12: parsing back the field that buildSyncCSS has built from the
\* settings and from any prior content of the field yields the settings.
C12_SyncRoundTrip ==
    [][ SyncField =>
          parseTagFromCSS(styleField'[1]) = [found |-> TRUE, val |-> JObj(settings)]
      ]_vars

\* The mapping `result` is `base` with the properties of `over` laid over it.
IsOverlay(result, base, over) ==
    /\ \A i, j \in DOMAIN result : result[i].k = result[j].k => i = j
    /\ { result[i].k : i \in DOMAIN result }
          = { base[i].k : i \in DOMAIN base } \cup { over[i].k : i \in DOMAIN over }
    /\ \A i \in DOMAIN result :
          \/ \E j \in DOMAIN over : over[j] = result[i]
          \/ /\ \A j \in DOMAIN over : over[j].k # result[i].k
             /\ \E j \in DOMAIN base : base[j] = result[i]

\* The stored item is a JSON text of a mapping.
LocalMapping(item) ==
    /\ item # <<>>
    /\ JSONparse(item[1]).ok
    /\ JSONparse(item[1]).val.t = "obj"

\* The custom-style text holds a tagged block with the JSON text of a mapping.
SyncedMapping(styleEl) ==
    /\ styleEl # <<>>
    /\ parseTagFromCSS(styleEl[1]).found
    /\ parseTagFromCSS(styleEl[1]).val.t = "obj"

\* C14 as stated: load() yields the stored mapping (over the defaults) when
\* local storage holds one; otherwise the mapping of the tagged block of
\* the custom-style text (over the defaults) when there is one; otherwise
\* the defaults.
C14_LoadPrecedenceAsStated ==
    [][ Load =>
          IF LocalMapping(storage)
          THEN IsOverlay(settings', DEFAULTS, JSONparse(storage[1]).val.props)
          ELSE IF SyncedMapping(userStyles)
          THEN IsOverlay(settings', DEFAULTS, parseTagFromCSS(userStyles[1]).val.props)
          ELSE settings' = DEFAULTS ]_vars

\* The stored item is a JSON text of an object, of null or of a boolean.
PlainJSON(item) ==
    /\ JSONparse(item[1]).ok
    /\ JSONparse(item[1]).val.t \in {"obj", "null", "bool"}

\* C14, amended: a stored item that is not empty decides alone: the
\* settings are the defaults overlaid with the properties of its JSON value
\* (none for null or a boolean), and the defaults when it is no JSON text;
\* only without a stored item, or with an empty one, the mapping of the
\* tagged block of the custom-style text is laid over the defaults, and
\* without such a block the settings are the defaults.
C14_LoadPrecedence ==
    [][ Load =>
          IF storage # <<>> /\ storage[1] # <<>>
          THEN /\ PlainJSON(storage) =>
                    IsOverlay(settings', DEFAULTS, JSONparse(storage[1]).val.props)
               /\ ~JSONparse(storage[1]).ok => settings' = DEFAULTS
          ELSE IF SyncedMapping(userStyles)
          THEN IsOverlay(settings', DEFAULTS, parseTagFromCSS(userStyles[1]).val.props)
          ELSE settings' = DEFAULTS ]_vars

\* A session without a stored item has loaded the settings of the tagged
\* block of the custom-style text.
C14_Witness ==
    /\ history # <<>>
    /\ history[Len(history)] = "load"
    /\ storage = <<>>
    /\ SyncedMapping(userStyles)
    /\ getProp(settings, "nickBold") = JBool(TRUE)
    /\ settings # DEFAULTS

(***************************************************************************)
(* Progress of the fetch queue.                                            *)
(***************************************************************************)
InQueue(item) == \E i \in DOMAIN queue : queue[i] = item

\* C18: when every lookup in flight completes, a lookup in the queue is
\* eventually dispatched and its key eventually has a cache entry; and the
\* queue is never non-empty while fewer than MAX_CONCURRENT lookups run.
C18_QueueProgress ==
    /\ [](queue # <<>> => activeCount >= MAX_CONCURRENT)
    /\ \A item \in Lookups : InQueue(item) ~> BagIn(item, pending)
    /\ \A k \in { item.key : item \in Lookups } :
          QueuedIn(queue, k) > 0 ~> (k \in DOMAIN cache)

\* A lookup has completed while another waits in the queue: the .finally()
\* callback that is due frees the slot and dispatches it.
C18_Witness ==
    /\ queue # <<>>
    /\ settled # <<>>
    /\ activeCount = MAX_CONCURRENT
    /\ queue[1].key \notin DOMAIN cache

(***************************************************************************)
(* Reconciliation by the scan.                                             *)
(***************************************************************************)
\* No other element that carries a name has the injection target of el.
OwnTarget(nm, el) ==
    \A other \in Elems \ {el} : nm[other] # NoName => Target(other) # Target(el)

\* The element's target shows the avatar of the element's nickname.
ShowsOwn(av, nm, el) ==
    av[Target(el)] # <<>> /\ Head(av[Target(el)]).nick = nm[el]

\* C19: after a scan, the target of each name element that is no service
\* name, is in a recognized context and shares its target with no other
\* name element holds no avatar of another nickname, and holds the avatar of
\* the element's nickname when that is positively cached; an element that
\* shows its own avatar before the scan keeps its target as it is, and
\* processing it changes nothing.
C19_ScanReconciles ==
    [][ ScanAll =>
          \A el \in Elems :
            (Recognized(names, el) /\ OwnTarget(names, el)) =>
              /\ \A i \in DOMAIN avatars'[Target(el)] :
                    avatars'[Target(el)][i].nick = names[el]
              /\ IsPositive(cache', toLowerCase(names[el]))
                    => HasAvatarOf(avatars', el, names[el])
              /\ ShowsOwn(avatars, names, el) =>
                    /\ avatars'[Target(el)] = avatars[Target(el)]
                    /\ processUserElement(State, el, names, now) = State ]_vars

\* The host has re-used the elements: the message element names bob, which
\* is negatively cached, and its wrapper holds no avatar, while the
\* nicklist element, which names a service now, still holds the avatar of
\* alice.
C19_Witness ==
    /\ names[2] = "bob"
    /\ avatars[Target(2)] = <<>>
    /\ IsNegative(cache, "bob")
    /\ IsPositive(cache, "alice")
    /\ names[1] = "ChanServ"
    /\ HasAvatarOf(avatars, 1, "alice")
    /\ Idle

(***************************************************************************)
(* The throttle of the mutation observer.                                  *)
(***************************************************************************)
\* C20: a mutation that finds no throttle window open is followed by a scan
\* in the same callback, and such a leading-edge scan comes no sooner than
\* THROTTLE_MS after the one before; the trailing scan comes no sooner than
\* TRAILING_MS after the last mutation; and when the timers that are due
\* fire, every mutation is followed by a scan that starts after it.
Mutated == \E page \in Pages : Mutation(page)

C20_LeadingAndTrailingScan ==
    /\ [][ /\ (Mutated /\ throttleTimer = NoTimer) =>
                /\ ~unscanned'
                /\ sinceLeading = THROTTLE_MS
                /\ sinceLeading' = 0
           /\ (Mutated /\ throttleTimer # NoTimer) =>
                /\ sinceLeading < THROTTLE_MS \/ throttleTimer = 0
                /\ trailingTimer' = TRAILING_MS
           /\ TrailingFire => (quiet = TRAILING_MS /\ ~unscanned') ]_vars
    /\ [](unscanned => <>~unscanned)

\* A mutation has come inside the throttle window of a leading-edge scan:
\* no scan has started after it yet, and both timers are running.
C20_Witness ==
    /\ unscanned
    /\ throttleTimer > 0
    /\ trailingTimer > throttleTimer
    /\ sinceLeading > 0
    /\ quiet = 0
    /\ names # EmptyPage

(***************************************************************************)
(* The start of the avatar injector.                                       *)
(***************************************************************************)
\* An init timer fires in this step.
InitRuns == \E i \in 1..MaxInits : AvatarInit(i)

Installed == observerOn = 1 /\ intervalOn = 1

\* What C21 says of each init and of what is installed: an init that finds
\* no app root installs nothing, changes nothing and leaves one init timer
\* of RETRY_DELAY; an init that finds the root leaves no init timer and
\* installs the observer and the interval; neither is ever installed twice,
\* and there is never more than one init timer.
InitStepwise ==
    [][ /\ (InitRuns /\ ~app) =>
              /\ avatarInits' = <<RETRY_DELAY>>
              /\ UNCHANGED <<observerOn, intervalOn, intervalTimer>>
              /\ UNCHANGED avatarVars
        /\ (InitRuns /\ app) =>
              /\ avatarInits' = <<>>
              /\ Installed'
              /\ intervalTimer' = SCAN_INTERVAL
        /\ Len(avatarInits') <= 1
        /\ observerOn' <= 1 /\ intervalOn' <= 1
        /\ observerOn' = intervalOn'
        /\ Installed => (Installed' /\ avatarInits' = <<>>)
        /\ (~InitRuns) => UNCHANGED <<observerOn, intervalOn>> ]_vars

\* Once installed, the interval's scan runs again and again.
ScansForever ==
    /\ Installed ~> (intervalTimer = 0)
    /\ (Installed /\ intervalTimer = 0) ~> (intervalTimer = SCAN_INTERVAL)

\* C21 as stated: as below, and the retrying is bounded: it ends, whether
\* the app root comes or not.
C21_InitRetryAsStated ==
    /\ InitStepwise
    /\ ScansForever
    /\ <>(avatarInits = <<>>)

\* C21: an init that finds no app root installs nothing and schedules one
\* more init, for as long as the root is absent; once an init finds the
\* root no init is scheduled any more, the observer and the interval are
\* installed exactly once, and the interval's scan runs forever after.
C21_InitRetry ==
    /\ InitStepwise
    /\ ScansForever
    /\ [](app => <>Installed)

\* An init has found the root after a retry: everything is installed once,
\* the interval has fired and is in its next period.
C21_Witness ==
    /\ Installed
    /\ avatarInits = <<>>
    /\ intervalTimer \in 1..(SCAN_INTERVAL - 1)
    /\ names # EmptyPage
    /\ queue # <<>>

(***************************************************************************)
(* The failure of an avatar's image.                                       *)
(***************************************************************************)
\* The avatar children of node n without the i-th.
WithoutAvatar(av, n, i) ==
    [av EXCEPT ![n] = SubSeq(@, 1, i - 1) \o SubSeq(@, i + 1, Len(@))]

\* The step removes the i-th avatar of node n, and nothing else changes.
RemovesOnly(n, i) ==
    /\ avatars' = WithoutAvatar(avatars, n, i)
    /\ UNCHANGED <<cache, queue, activeCount, pending, settled, names, now>>

\* Processing name element el in the state after the step puts an avatar
\* like `a` first into the target of el.
Reinjects(el, a) ==
    LET after == [cache |-> cache', queue |-> queue', activeCount |-> activeCount',
                  pending |-> pending', avatars |-> avatars']
        av    == processUserElement(after, el, names', now').avatars[Target(el)]
    IN av # <<>> /\ Head(av) = a

\* C22 as stated: the failure of the image of an avatar removes that avatar
\* only; its nickname is positively cached with the avatar's URL after it,
\* and processing a name element of that nickname whose target lost the
\* avatar injects an avatar with that URL again.
C22_ImageErrorAsStated ==
    [][ \A n \in Nodes, i \in 1..2 :
          ImgError(n, i) =>
            LET a   == avatars[n][i]
                key == toLowerCase(a.nick)
            IN /\ RemovesOnly(n, i)
               /\ IsPositive(cache', key)
               /\ createAvatarEl(a.nick, cache'[key].url.s) = a
               /\ \A el \in Elems :
                    (Recognized(names, el) /\ names[el] = a.nick /\ Target(el) = n
                       /\ ~HasAvatarOf(avatars', el, a.nick))
                      => Reinjects(el, a) ]_vars

(***************************************************************************)
(* The user's own text in the custom-style field.                          *)
(***************************************************************************)
\* The text of the field outside the tagged block, without the white space
\* around it: what is left when the block that the pattern of buildSyncCSS
\* finds is cut out.
OwnCSS(css) == trim(stripTag(css))

\* C23 as stated: a Save & Sync on a page with the custom-style field
\* leaves the text of the field outside the tagged block as it was; on a
\* page without the field it changes nothing but the stored item.
C23_SyncPreservesUserCSS ==
    [][ SyncClick =>
          IF styleField = <<>>
          THEN /\ ~syncToServer(styleField, settings).ok
               /\ UNCHANGED <<settings, userStyles, rootStyle, styleBlock,
                              styleField, app, view, sections>>
               /\ storage' = save(settings)
          ELSE /\ syncToServer(styleField, settings).ok
               /\ styleField' # <<>>
               /\ OwnCSS(styleField'[1]) = OwnCSS(styleField[1]) ]_vars

(***************************************************************************)
(* The count of the lookups in flight.                                     *)
(***************************************************************************)
\* The lookups dispatched whose .finally() callback has not run: those not
\* yet settled, and the one settled whose .finally() is the next reaction.
Uncompleted == BagCardinality(pending) + Len(settled)

\* The step runs the .finally() callback of the lookup that has settled.
RunsFinally == settled # <<>> /\ settled' = <<>>

\* The step is the response to a lookup in flight.
Responds == settled = <<>> /\ settled' # <<>>

\* The lookups dispatched in the step.
Dispatched == Uncompleted' - Uncompleted + (IF RunsFinally THEN 1 ELSE 0)

\* C24: activeCount is the number of lookups dispatched and not completed,
\* and never negative; a step adds to it one for each lookup it dispatches,
\* and takes one off it only when it runs the .finally() of a lookup, which
\* follows every response, also a failed fetch and a body that does not
\* parse; a lookup in flight stays in flight, and counted, until its
\* response comes.
C24_ActiveCountIsInFlight ==
    /\ [](activeCount = Uncompleted /\ activeCount >= 0)
    /\ [][ /\ Dispatched >= 0
           /\ activeCount' = activeCount + Dispatched - (IF RunsFinally THEN 1 ELSE 0)
           /\ Responds => (activeCount' = activeCount /\ Len(settled') = 1)
           /\ settled # <<>> => RunsFinally
           /\ \A item \in BagToSet(pending) :
                 CopiesIn(item, pending') < CopiesIn(item, pending)
                    => /\ Responds
                       /\ settled'[1].key = item.key /\ settled'[1].nick = item.nick
                       /\ CopiesIn(item, pending') = CopiesIn(item, pending) - 1 ]_vars

\* A lookup has failed on a body that does not parse and its .finally() has
\* not run yet; two more are in flight and one waits in the queue.
C24_Witness ==
    /\ settled # <<>>
    /\ settled[1].res.body = "malformed"
    /\ BagCardinality(pending) = 2
    /\ activeCount = MAX_CONCURRENT
    /\ queue # <<>>

====
